---- MODULE Spec2Model ----
(***************************************************************************)
(* Decentralized-SDG backend: the ledger client (config/blockchain.js),    *)
(* the synchronizer, the transaction orchestrator and the event listeners  *)
(* (services/blockchainService.js) and the quality service                 *)
(* (services/qualityService.js), over a model of the market contract.      *)
(***************************************************************************)
EXTENDS Integers, Sequences, FiniteSets, TLC

(***************************************************************************)
(* Bounds of the model.                                                    *)
(***************************************************************************)
MaxRequests == 1
MaxSubmissions == 1
NumCalls == 2
NumSyncs == 2
MaxDeliveries == 2
NumQCalls == 2
MaxMask == 127

(***************************************************************************)
(* Program constants.                                                      *)
(***************************************************************************)
DATA_FORMAT_NAMES == <<"AUDIO", "CSV", "IMAGE", "TEXT", "VIDEO", "MIXED">>
REQUEST_STATUS_NAMES == <<"OPEN", "CLOSED">>
SUBMISSION_STATUS_NAMES == <<"PENDING", "APPROVED", "REJECTED", "PAID", "REFUNDED">>

\* null of a string-valued or of a number-valued field
Null == "null"
NullNum == -1

ZeroAddress == "0x0000"
\* ethers hands addresses out in checksum (mixed) case
BuyerAddress == "0xAbC1"
SellerAddress == "0xDeF2"
ModelAddress == "0x9aBc"
Addresses == {ZeroAddress, BuyerAddress, SellerAddress, ModelAddress}

Digits == <<"0", "1", "2", "3", "4", "5", "6", "7", "8", "9">>

\* BigInt.prototype.toString / Number.prototype.toString, base 10, n >= 0
RECURSIVE toString(_)
toString(n) ==
    IF n < 10 THEN Digits[n + 1]
    ELSE toString(n \div 10) \o Digits[(n % 10) + 1]

\* String.prototype.toLowerCase on the addresses of the model
ToLowerCase(a) ==
    CASE a = BuyerAddress -> "0xabc1"
      [] a = SellerAddress -> "0xdef2"
      [] a = ModelAddress -> "0x9abc"
      [] OTHER -> a

\* JavaScript array indexing arr[i], 0-based; undefined is rendered "undefined"
ArrayAt(arr, i) == IF i \in 0..(Len(arr) - 1) THEN arr[i + 1] ELSE "undefined"

DATA_FORMATS == [AUDIO |-> 0, CSV |-> 1, IMAGE |-> 2, TEXT |-> 3, VIDEO |-> 4, MIXED |-> 5]

\* IndexOf counting from 1, 0 when absent
IndexOf_OneBased(arr, x) ==
    IF \E i \in 1..Len(arr) : arr[i] = x
    THEN CHOOSE i \in 1..Len(arr) : arr[i] = x /\ \A j \in 1..(i - 1) : arr[j] # x
    ELSE 0

\* Array.prototype.indexOf, 0-based, -1 when absent
IndexOf(arr, x) ==
    IF \E i \in 1..Len(arr) : arr[i] = x
    THEN (CHOOSE i \in 1..Len(arr) : arr[i] = x /\ \A j \in 1..(i - 1) : arr[j] # x) - 1
    ELSE -1

\* mask & (1 << i), as a truth value
BitSet(mask, i) == (mask \div (2 ^ i)) % 2 = 1

RECURSIVE DecodeFrom(_, _)
DecodeFrom(mask, i) ==
    IF i >= Len(DATA_FORMAT_NAMES) THEN <<>>
    ELSE (IF BitSet(mask, i) THEN <<DATA_FORMAT_NAMES[i + 1]>> ELSE <<>>)
         \o DecodeFrom(mask, i + 1)

\* decodeFormatsMask whose loop starts at the second format
decodeFormatsMask_FromSecondBit(mask) == DecodeFrom(mask, 1)

decodeFormatsMask(mask) == DecodeFrom(mask, 0)

\* String.prototype.toUpperCase on the format names of the model
ToUpperCase(name) ==
    CASE name = "csv" -> "CSV"
      [] name = "Csv" -> "CSV"
      [] name = "pdf" -> "PDF"
      [] OTHER -> name

\* validators.isValidFormat for a string: the upper-cased name is one of
\* DATA_FORMAT_NAMES
isValidFormat(format) ==
    \E i \in 1..Len(DATA_FORMAT_NAMES) : DATA_FORMAT_NAMES[i] = ToUpperCase(format)

\* mask > 0 && mask <= 63, for a number
isValidFormatsMask(mask) == mask > 0 /\ mask <= 63

\* mask | (1 << index)
BitOr(mask, index) == IF BitSet(mask, index) THEN mask ELSE mask + 2 ^ index

\* the for-of loop of parseFormatsMask over an array of names
RECURSIVE EncodeFrom(_, _, _)
EncodeFrom(formats, k, mask) ==
    IF k > Len(formats) THEN mask
    ELSE LET index == IndexOf(DATA_FORMAT_NAMES, ToUpperCase(formats[k]))
         IN EncodeFrom(formats, k + 1,
                       IF index # -1 THEN BitOr(mask, index) ELSE mask)

\* a JavaScript argument that is a number or an array
Number(n) == [type |-> "number", value |-> n]
Array(a) == [type |-> "array", value |-> a]

\* parseFormatsMask(formats); null is NullNum
parseFormatsMask(formats) ==
    IF formats.type = "number"
    THEN (IF isValidFormatsMask(formats.value) THEN formats.value ELSE NullNum)
    ELSE IF formats.type = "array"
    THEN (IF EncodeFrom(formats.value, 1, 0) > 0
          THEN EncodeFrom(formats.value, 1, 0) ELSE NullNum)
    ELSE NullNum

\* dataRequestSchema.statics.decodeFormatsMask: forEach over its own list of
\* the six names, pushing the name of every set bit
RECURSIVE ForEachFormat(_, _, _)
ForEachFormat(formats, formatsMask, index) ==
    IF index >= Len(formats) THEN <<>>
    ELSE (IF BitSet(formatsMask, index) THEN <<formats[index + 1]>> ELSE <<>>)
         \o ForEachFormat(formats, formatsMask, index + 1)

DataRequestDecodeFormatsMask(formatsMask) ==
    ForEachFormat(<<"AUDIO", "CSV", "IMAGE", "TEXT", "VIDEO", "MIXED">>, formatsMask, 0)

(***************************************************************************)
(* State.                                                                  *)
(***************************************************************************)
VARIABLES
    env,                \* process.env settings and whether the RPC endpoint answers
    initialized,        \* BlockchainService.initialized
    signer,             \* BlockchainService.signer is set
    provider,           \* BlockchainService.provider: null, or made by the
                        \* initialize() call that made the contract, or by a
                        \* later one
    contract,           \* BlockchainService.contract: null or created
    chainRequests,      \* the contract's requests mapping, ids 1..Len
    chainSubmissions,   \* the contract's submissions mapping, ids 1..Len
    emitted,            \* the events the contract has emitted
    calls,              \* orchestrated writes in flight, one slot each
    syncs,              \* direct syncRequest / syncSubmission calls in flight
    listeners,          \* event names with a contract.on listener
    deliveries,         \* listener callbacks in flight, one per delivered event
    mirrorRequests,     \* the datarequests collection
    mirrorSubmissions,  \* the submissions collection
    ipfsInitialized,    \* IPFSService.initialized
    qcalls,             \* QualityService.verifySubmission calls in flight
    modelLogs,          \* the aimodellogs collection
    verifications,      \* the qualityverifications collection
    s3Initialized,      \* S3Service.initialized
    lastOp              \* the outcome of the latest read or storage operation

vars == <<env, initialized, signer, provider, contract, chainRequests, chainSubmissions, emitted, calls,
          syncs, listeners, deliveries, mirrorRequests, mirrorSubmissions,
          ipfsInitialized, qcalls, modelLogs, verifications, s3Initialized,
          lastOp>>

ledgerVars == <<chainRequests, chainSubmissions, emitted>>
clientVars == <<env, initialized, signer, provider, contract>>
mirrorVars == <<mirrorRequests, mirrorSubmissions>>
qualityVars == <<ipfsInitialized, qcalls, modelLogs, verifications>>
storageVars == <<s3Initialized, lastOp>>

(***************************************************************************)
(* The market contract: the tuples of its read accessors, and its write    *)
(* entry points.  A mapping read of an id that was never written returns   *)
(* the all-zero tuple.                                                     *)
(***************************************************************************)
EmptyRequest ==
    [id |-> 0, buyer |-> ZeroAddress, budget |-> 0, formatsMask |-> 0,
     description |-> "", status |-> 0, qualityScore |-> 0,
     qualityReportCid |-> "", finalizedSubmissionId |-> 0]

EmptySubmission ==
    [id |-> 0, requestId |-> 0, seller |-> ZeroAddress, model |-> ZeroAddress,
     format |-> 0, fileSize |-> 0, sampleCount |-> 0, fileExtensions |-> "",
     datasetReference |-> "", status |-> 0, qualityChecked |-> FALSE]

\* contract.requests(id)
ReadRequest(id) ==
    IF id \in 1..Len(chainRequests) THEN chainRequests[id] ELSE EmptyRequest

\* contract.submissions(id)
ReadSubmission(id) ==
    IF id \in 1..Len(chainSubmissions) THEN chainSubmissions[id] ELSE EmptySubmission

NoEffect == [ok |-> FALSE, requests |-> chainRequests,
             submissions |-> chainSubmissions, events |-> <<>>]

\* createRequest(uint8 formatsMask, string description) payable
ChainCreateRequest(tx) ==
    IF tx.formatsMask = 0 \/ Len(chainRequests) >= MaxRequests THEN NoEffect
    ELSE LET id == Len(chainRequests) + 1 IN
         [ok |-> TRUE,
          requests |-> Append(chainRequests,
              [id |-> id, buyer |-> tx.from, budget |-> tx.value,
               formatsMask |-> tx.formatsMask, description |-> tx.description,
               status |-> 0, qualityScore |-> 0, qualityReportCid |-> "",
               finalizedSubmissionId |-> 0]),
          submissions |-> chainSubmissions,
          events |-> <<[name |-> "RequestCreated", requestId |-> id,
                        submissionId |-> 0, approved |-> FALSE, qualityScore |-> 0]>>]

\* submitDataset(requestId, format, fileSize, sampleCount, fileExtensions,
\*               datasetReference, model)
ChainSubmitDataset(tx) ==
    IF \/ ReadRequest(tx.requestId).id = 0
       \/ ReadRequest(tx.requestId).status # 0
       \/ Len(chainSubmissions) >= MaxSubmissions
    THEN NoEffect
    ELSE LET id == Len(chainSubmissions) + 1 IN
         [ok |-> TRUE,
          requests |-> chainRequests,
          submissions |-> Append(chainSubmissions,
              [id |-> id, requestId |-> tx.requestId, seller |-> tx.from,
               model |-> tx.model, format |-> tx.format, fileSize |-> tx.fileSize,
               sampleCount |-> tx.sampleCount, fileExtensions |-> tx.fileExtensions,
               datasetReference |-> tx.datasetReference, status |-> 0,
               qualityChecked |-> FALSE]),
          events |-> <<[name |-> "SubmissionSubmitted", requestId |-> tx.requestId,
                        submissionId |-> id, approved |-> FALSE, qualityScore |-> 0]>>]

\* verifySubmission(submissionId, approved, qualityScore, qualityReportCid); with
\* tx.finalize the same transaction pays or refunds and closes the parent request
ChainVerifySubmission(tx) ==
    LET s == ReadSubmission(tx.submissionId) IN
    IF s.id = 0 \/ s.status # 0 THEN NoEffect
    ELSE LET status == IF tx.finalize THEN (IF tx.approved THEN 3 ELSE 4)
                       ELSE (IF tx.approved THEN 1 ELSE 2)
             r == ReadRequest(s.requestId)
             verified == [name |-> "SubmissionVerified", requestId |-> s.requestId,
                          submissionId |-> s.id, approved |-> tx.approved,
                          qualityScore |-> tx.qualityScore]
             settled == [name |-> IF tx.approved THEN "PaymentReleased"
                                  ELSE "RefundIssued",
                         requestId |-> s.requestId, submissionId |-> s.id,
                         approved |-> tx.approved, qualityScore |-> tx.qualityScore]
         IN
         [ok |-> TRUE,
          requests |-> [chainRequests EXCEPT ![s.requestId] =
              [r EXCEPT !.qualityScore = tx.qualityScore,
                        !.qualityReportCid = tx.qualityReportCid,
                        !.status = IF tx.finalize THEN 1 ELSE r.status,
                        !.finalizedSubmissionId =
                            IF tx.finalize THEN s.id ELSE r.finalizedSubmissionId]],
          submissions |-> [chainSubmissions EXCEPT ![s.id] =
              [s EXCEPT !.status = status, !.qualityChecked = TRUE]],
          events |-> IF tx.finalize THEN <<verified, settled>> ELSE <<verified>>]

\* a later payment or refund of a verified submission, closing its request
ChainSettle(tx) ==
    LET s == ReadSubmission(tx.submissionId) IN
    IF s.id = 0 \/ s.status \notin {1, 2} THEN NoEffect
    ELSE LET r == ReadRequest(s.requestId) IN
         [ok |-> TRUE,
          requests |-> [chainRequests EXCEPT ![s.requestId] =
              [r EXCEPT !.status = 1, !.finalizedSubmissionId = s.id]],
          submissions |-> [chainSubmissions EXCEPT ![s.id] =
              [s EXCEPT !.status = IF s.status = 1 THEN 3 ELSE 4]],
          events |-> <<[name |-> IF s.status = 1 THEN "PaymentReleased"
                                 ELSE "RefundIssued",
                        requestId |-> s.requestId, submissionId |-> s.id,
                        approved |-> s.status = 1, qualityScore |-> r.qualityScore]>>]

\* the effect of a mined transaction on the contract
ChainApply(tx) ==
    CASE tx.fn = "createRequest" -> ChainCreateRequest(tx)
      [] tx.fn = "submitDataset" -> ChainSubmitDataset(tx)
      [] tx.fn = "verifySubmission" -> ChainVerifySubmission(tx)
      [] tx.fn = "settle" -> ChainSettle(tx)

Range(seq) == {seq[i] : i \in 1..Len(seq)}

(***************************************************************************)
(* StateSynchronizer: syncRequest / syncSubmission.  rpc is the outcome of *)
(* the contract read: "ok", or "error" when the provider call rejects.     *)
(***************************************************************************)
SyncFailure(error) == [ok |-> FALSE, error |-> error, record |-> <<>>]
SyncSuccess(record) == [ok |-> TRUE, error |-> "", record |-> <<record>>]

\* the requestData object built from the tuple read
RequestData(contractRequest) ==
    [requestId |-> contractRequest.id,
     buyerAddress |-> ToLowerCase(contractRequest.buyer),
     description |-> contractRequest.description,
     budget |-> toString(contractRequest.budget),
     formatsMask |-> contractRequest.formatsMask,
     acceptedFormats |-> decodeFormatsMask(contractRequest.formatsMask),
     status |-> ArrayAt(REQUEST_STATUS_NAMES, contractRequest.status),
     qualityScore |-> IF contractRequest.qualityScore = 0 THEN NullNum
                      ELSE contractRequest.qualityScore,
     ipfsReportCid |-> IF contractRequest.qualityReportCid = "" THEN Null
                       ELSE contractRequest.qualityReportCid,
     finalizedSubmissionId |->
         IF toString(contractRequest.finalizedSubmissionId) # "0"
         THEN contractRequest.finalizedSubmissionId ELSE NullNum]

\* the submissionData object built from the tuple read
SubmissionData(contractSubmission) ==
    [submissionId |-> contractSubmission.id,
     requestId |-> contractSubmission.requestId,
     sellerAddress |-> ToLowerCase(contractSubmission.seller),
     modelAddress |-> ToLowerCase(contractSubmission.model),
     format |-> ArrayAt(DATA_FORMAT_NAMES, contractSubmission.format),
     fileSize |-> contractSubmission.fileSize,
     sampleCount |-> contractSubmission.sampleCount,
     fileExtensions |-> contractSubmission.fileExtensions,
     datasetReference |-> contractSubmission.datasetReference,
     status |-> ArrayAt(SUBMISSION_STATUS_NAMES, contractSubmission.status),
     qualityChecked |-> contractSubmission.qualityChecked]

\* DecodeSubmission without the sentinel check
DecodeSubmission_NoSentinel(contractSubmission) ==
    SyncSuccess(SubmissionData(contractSubmission))

\* syncRequest once the read has returned contractRequest
DecodeRequest(contractRequest) ==
    IF toString(contractRequest.id) = "0" THEN SyncFailure("NotFound")
    ELSE SyncSuccess(RequestData(contractRequest))

\* syncSubmission once the read has returned contractSubmission
DecodeSubmission(contractSubmission) ==
    IF toString(contractSubmission.id) = "0" THEN SyncFailure("NotFound")
    ELSE SyncSuccess(SubmissionData(contractSubmission))

syncRequest(requestId, rpc) ==
    IF ~initialized THEN SyncFailure("NotInitialized")
    ELSE IF rpc # "ok" THEN SyncFailure("RpcError")
    ELSE DecodeRequest(ReadRequest(requestId))

syncSubmission(submissionId, rpc) ==
    IF ~initialized THEN SyncFailure("NotInitialized")
    ELSE IF rpc # "ok" THEN SyncFailure("RpcError")
    ELSE DecodeSubmission(ReadSubmission(submissionId))

RpcOutcomes == {"ok", "error"}

\* the outcome of an operation, as lastOp holds it: ready is the service's
\* initialized flag when the operation was invoked, called is whether the
\* ledger or the storage backend was called
Outcome(svc, op, ready, called, error, result) ==
    [svc |-> svc, op |-> op, ready |-> ready, called |-> called, error |-> error,
     result |-> result]

NoOp == Outcome("none", "none", FALSE, FALSE, "", <<>>)

(***************************************************************************)
(* LedgerClient: BlockchainService.initialize.                             *)
(***************************************************************************)
\* rpcUrl / contractAddress / privateKey: the variable is set in process.env;
\* reachable: provider.getNetwork() answers
Environments ==
    [rpcUrl : BOOLEAN, reachable : BOOLEAN, contractAddress : BOOLEAN,
     privateKey : BOOLEAN]

\* the error initialize() throws, "" when it returns true
InitializeError(e) ==
    IF ~e.rpcUrl THEN "ConfigError"
    ELSE IF ~e.reachable THEN "ConnectionError"
    ELSE IF ~e.contractAddress THEN "ConfigError"
    ELSE ""

\* this.provider is replaced as soon as the URL is known, this.contract only
\* when the network answered and the address is set; the catch block rethrows
\* and resets nothing
initialize ==
    /\ IF InitializeError(env) = ""
       THEN /\ provider' = "sameCall"
            /\ contract' = "created"
            /\ initialized' = TRUE
            /\ signer' = (signer \/ env.privateKey)
       ELSE /\ provider' = (IF env.rpcUrl THEN "laterCall" ELSE provider)
            /\ UNCHANGED <<contract, initialized, signer>>
    /\ lastOp' = Outcome("ledger", "initialize", TRUE, env.rpcUrl,
                         InitializeError(env), <<>>)
    /\ UNCHANGED <<env, ledgerVars, calls, syncs, listeners, deliveries, mirrorVars,
                   qualityVars, s3Initialized>>

(***************************************************************************)
(* TransactionOrchestrator: createRequest, submitDataset, verifySubmission *)
(* of BlockchainInteraction.  A call runs in one slot of calls; its pc is  *)
(* the await it is suspended at.                                           *)
(***************************************************************************)
Calls == 1..NumCalls
Syncs == 1..NumSyncs

IdleSync ==
    [fn |-> "none", id |-> 0, pc |-> "idle", version |-> 0, raw |-> <<>>,
     result |-> [ok |-> FALSE, error |-> "", record |-> <<>>]]

IdleCall ==
    [op |-> "none", args |-> <<>>, pc |-> "idle", sendAttempted |-> FALSE,
     txSubmitted |-> FALSE, confirmed |-> FALSE, logs |-> <<>>, syncLog |-> <<>>,
     error |-> "", result |-> <<>>]

Failed(call, error) == [call EXCEPT !.pc = "failed", !.error = error]

\* SendTransaction with the sync moved before the confirmation wait
SendTransaction_SyncBeforeWait(call, sendOk) ==
    IF ~initialized THEN Failed(call, "NotInitialized")
    ELSE IF ~signer THEN Failed(call, "SignerMissing")
    ELSE IF call.op = "submitDataset" /\ IndexOf(DATA_FORMAT_NAMES, call.args.format) = -1
         THEN Failed(call, "InvalidFormat")
    ELSE IF ~sendOk THEN Failed([call EXCEPT !.sendAttempted = TRUE], "SendFailed")
    ELSE [call EXCEPT !.sendAttempted = TRUE, !.txSubmitted = TRUE, !.pc = "sent",
                      !.syncLog = <<[fn |-> "syncSubmission", id |-> 1]>>]

\* SendTransaction without the check of the signer
SendTransaction_NoSignerCheck(call, sendOk) ==
    IF ~initialized THEN Failed(call, "NotInitialized")
    ELSE IF call.op = "submitDataset" /\ IndexOf(DATA_FORMAT_NAMES, call.args.format) = -1
         THEN Failed(call, "InvalidFormat")
    ELSE IF ~sendOk THEN Failed([call EXCEPT !.sendAttempted = TRUE], "SendFailed")
    ELSE [call EXCEPT !.sendAttempted = TRUE, !.txSubmitted = TRUE, !.pc = "sent"]

\* the statements of a write up to and including `await contract.fn(...)`:
\* sendOk is whether the provider accepts the transaction
SendTransaction(call, sendOk) ==
    IF ~initialized THEN Failed(call, "NotInitialized")
    ELSE IF ~signer THEN Failed(call, "SignerMissing")
    ELSE IF call.op = "submitDataset" /\ IndexOf(DATA_FORMAT_NAMES, call.args.format) = -1
         THEN Failed(call, "InvalidFormat")
    ELSE IF ~sendOk THEN Failed([call EXCEPT !.sendAttempted = TRUE], "SendFailed")
    ELSE [call EXCEPT !.sendAttempted = TRUE, !.txSubmitted = TRUE, !.pc = "sent"]

MaskInputs == {0, 2, 63}
FormatInputs == {"CSV", "csv", "PDF"}
ScoreInputs == {0, 88}

createRequest(c, formatsMask, description, budgetInWei, sendOk) ==
    /\ calls[c].pc = "idle"
    /\ calls' = [calls EXCEPT ![c] = SendTransaction(
           [IdleCall EXCEPT !.op = "createRequest",
               !.args = [formatsMask |-> formatsMask, description |-> description,
                         budgetInWei |-> budgetInWei]], sendOk)]
    /\ UNCHANGED <<clientVars, ledgerVars, syncs, listeners, deliveries, mirrorVars, qualityVars, storageVars>>

submitDataset(c, requestId, format, sendOk) ==
    /\ calls[c].pc = "idle"
    /\ calls' = [calls EXCEPT ![c] = SendTransaction(
           [IdleCall EXCEPT !.op = "submitDataset",
               !.args = [requestId |-> requestId, format |-> format,
                         fileSize |-> 500000, sampleCount |-> 1000,
                         fileExtensions |-> "csv", datasetReference |-> "ref1",
                         modelAddress |-> ModelAddress]], sendOk)]
    /\ UNCHANGED <<clientVars, ledgerVars, syncs, listeners, deliveries, mirrorVars, qualityVars, storageVars>>

verifySubmission(c, submissionId, approved, qualityScore, sendOk) ==
    /\ calls[c].pc = "idle"
    /\ calls' = [calls EXCEPT ![c] = SendTransaction(
           [IdleCall EXCEPT !.op = "verifySubmission",
               !.args = [submissionId |-> submissionId, approved |-> approved,
                         qualityScore |-> qualityScore,
                         qualityReportCid |-> "QmReport"]], sendOk)]
    /\ UNCHANGED <<clientVars, ledgerVars, syncs, listeners, deliveries, mirrorVars, qualityVars, storageVars>>

\* the transaction a call has sent, as the contract sees it
TxOf(call, finalize) ==
    CASE call.op = "createRequest" ->
           [fn |-> "createRequest", from |-> BuyerAddress,
            formatsMask |-> call.args.formatsMask,
            description |-> call.args.description, value |-> call.args.budgetInWei]
      [] call.op = "submitDataset" ->
           [fn |-> "submitDataset", from |-> SellerAddress,
            requestId |-> call.args.requestId,
            format |-> IndexOf(DATA_FORMAT_NAMES, call.args.format),
            fileSize |-> call.args.fileSize, sampleCount |-> call.args.sampleCount,
            fileExtensions |-> call.args.fileExtensions,
            datasetReference |-> call.args.datasetReference,
            model |-> call.args.modelAddress]
      [] call.op = "verifySubmission" ->
           [fn |-> "verifySubmission", from |-> BuyerAddress,
            submissionId |-> call.args.submissionId, approved |-> call.args.approved,
            qualityScore |-> call.args.qualityScore,
            qualityReportCid |-> call.args.qualityReportCid, finalize |-> finalize]

\* a log of the receipt that contract.interface.parseLog cannot parse
ForeignLog == [name |-> "?", requestId |-> 0, submissionId |-> 0,
               approved |-> FALSE, qualityScore |-> 0]

LogShapes == {"events", "foreign+events", "foreign"}

ReceiptLogs(events, shape) ==
    CASE shape = "events" -> events
      [] shape = "foreign+events" -> <<ForeignLog>> \o events
      [] shape = "foreign" -> <<ForeignLog>>

\* `await tx.wait()`: the transaction is mined and reverts or takes effect
TxWait(c, revert, finalize, shape) ==
    /\ calls[c].pc = "sent"
    /\ LET effect == ChainApply(TxOf(calls[c], finalize)) IN
       IF revert \/ ~effect.ok
       THEN /\ calls' = [calls EXCEPT ![c] = Failed(@, "TransactionReverted")]
            /\ UNCHANGED ledgerVars
       ELSE /\ chainRequests' = effect.requests
            /\ chainSubmissions' = effect.submissions
            /\ emitted' = emitted \o effect.events
            /\ calls' = [calls EXCEPT ![c] =
                   [@ EXCEPT !.pc = "confirmed", !.confirmed = TRUE,
                             !.logs = ReceiptLogs(effect.events, shape)]]
    /\ UNCHANGED <<clientVars, syncs, listeners, deliveries, mirrorVars, qualityVars, storageVars>>

\* FindEvent giving up at a log that cannot be parsed
FindEvent_StopAtUnparsable(logs, name) ==
    IF logs # <<>> /\ logs[1].name = name THEN <<logs[1]>> ELSE <<>>

\* receipt.logs.find(log => parseLog(log).name === name), unparsable logs skipped
FindEvent(logs, name) ==
    IF \E i \in 1..Len(logs) : logs[i].name = name
    THEN <<logs[CHOOSE i \in 1..Len(logs) :
                /\ logs[i].name = name
                /\ \A j \in 1..(i - 1) : logs[j].name # name]>>
    ELSE <<>>

SyncEntry(fn, id) == [fn |-> fn, id |-> id]

\* createRequest after the receipt: find the event, sync, return
createRequestResume(call, rpc) ==
    LET event == FindEvent(call.logs, "RequestCreated") IN
    IF event = <<>> THEN Failed(call, "EventNotFound")
    ELSE LET requestId == event[1].requestId
             synced == syncRequest(requestId, rpc)
             logged == [call EXCEPT
                 !.syncLog = Append(@, SyncEntry("syncRequest", requestId))]
         IN IF ~synced.ok THEN Failed(logged, synced.error)
            ELSE [logged EXCEPT !.pc = "done",
                     !.result = <<[id |-> requestId, txHash |-> "tx"]>>]

\* submitDataset after the receipt
submitDatasetResume(call, rpc) ==
    LET event == FindEvent(call.logs, "SubmissionSubmitted") IN
    IF event = <<>> THEN Failed(call, "EventNotFound")
    ELSE LET submissionId == event[1].submissionId
             synced == syncSubmission(submissionId, rpc)
             logged == [call EXCEPT
                 !.syncLog = Append(@, SyncEntry("syncSubmission", submissionId))]
         IN IF ~synced.ok THEN Failed(logged, synced.error)
            ELSE [logged EXCEPT !.pc = "done",
                     !.result = <<[id |-> submissionId, txHash |-> "tx"]>>]

\* verifySubmission after the receipt: syncSubmission only, then return
verifySubmissionResume(call, rpc) ==
    LET submissionId == call.args.submissionId
        synced == syncSubmission(submissionId, rpc)
        logged == [call EXCEPT
            !.syncLog = Append(@, SyncEntry("syncSubmission", submissionId))]
    IN IF ~synced.ok THEN Failed(logged, synced.error)
       ELSE [logged EXCEPT !.pc = "done",
                !.result = <<[id |-> submissionId, txHash |-> "tx"]>>]

Resume(c, rpc) ==
    /\ calls[c].pc = "confirmed"
    /\ calls' = [calls EXCEPT ![c] =
           CASE @.op = "createRequest" -> createRequestResume(@, rpc)
             [] @.op = "submitDataset" -> submitDatasetResume(@, rpc)
             [] @.op = "verifySubmission" -> verifySubmissionResume(@, rpc)]
    /\ UNCHANGED <<clientVars, ledgerVars, syncs, listeners, deliveries, mirrorVars, qualityVars, storageVars>>

\* a transaction of another party (a seller's wallet, a buyer's wallet)
ExternalTxs ==
    {[fn |-> "createRequest", from |-> BuyerAddress, formatsMask |-> 66,
      description |-> "ext", value |-> 250]}
    \cup {[fn |-> "submitDataset", from |-> SellerAddress, requestId |-> r,
           format |-> 1, fileSize |-> 500000, sampleCount |-> 1000,
           fileExtensions |-> "csv", datasetReference |-> "ref1",
           model |-> ModelAddress] : r \in 1..MaxRequests}
    \cup {[fn |-> "verifySubmission", from |-> ModelAddress, submissionId |-> s,
           approved |-> a, qualityScore |-> q, qualityReportCid |-> "QmReport",
           finalize |-> FALSE] : s \in 1..MaxSubmissions, a \in BOOLEAN,
                                 q \in ScoreInputs}
    \cup {[fn |-> "settle", submissionId |-> s] : s \in 1..MaxSubmissions}

ExternalTx(tx) ==
    /\ ChainApply(tx).ok
    /\ chainRequests' = ChainApply(tx).requests
    /\ chainSubmissions' = ChainApply(tx).submissions
    /\ emitted' = emitted \o ChainApply(tx).events
    /\ UNCHANGED <<clientVars, calls, syncs, listeners, deliveries, mirrorVars, qualityVars, storageVars>>

(***************************************************************************)
(* QualityEngine: QualityService.  A JavaScript string of comma-separated  *)
(* extensions is held as its defined flag and its split(',') tokens; a     *)
(* metric value is the fraction num / den.                                 *)
(***************************************************************************)
Str(tokens) == [defined |-> TRUE, tokens |-> tokens]
Undefined == [defined |-> FALSE, tokens |-> <<>>]

\* trim without toLowerCase
TrimLower_CaseSensitive(t) ==
    CASE t = " " -> ""
      [] t = " tsv" -> "tsv"
      [] OTHER -> t

\* String.prototype.trim and toLowerCase on the tokens of the model
TrimLower(t) ==
    CASE t = " " -> ""
      [] t = "CSV" -> "csv"
      [] t = " tsv" -> "tsv"
      [] OTHER -> t

\* !str || str.trim() === ''
Blank(str) ==
    \/ ~str.defined
    \/ (Len(str.tokens) = 1 /\ TrimLower(str.tokens[1]) = "")

Rat(num, den) == [num |-> num, den |-> den]
Whole(n) == Rat(n, 1)
\* the comparison with <= in place of <
Less_OrEqual(value, n) == value.num <= n * value.den

Less(value, n) == value.num < n * value.den

Max(a, b) == IF a >= b THEN a ELSE b

\* checkCompleteness taking 20 for blank extensions
checkCompleteness_ExtensionsCostTwenty(submission) ==
    Max(0, 100
           - (IF submission.fileSize = NullNum \/ submission.fileSize = 0 THEN 20 ELSE 0)
           - (IF submission.sampleCount = NullNum \/ submission.sampleCount = 0
              THEN 20 ELSE 0)
           - (IF Blank(submission.fileExtensions) THEN 20 ELSE 0)
           - (IF Blank(submission.datasetReference) THEN 10 ELSE 0))

checkCompleteness(submission) ==
    Max(0, 100
           - (IF submission.fileSize = NullNum \/ submission.fileSize = 0 THEN 20 ELSE 0)
           - (IF submission.sampleCount = NullNum \/ submission.sampleCount = 0
              THEN 20 ELSE 0)
           - (IF Blank(submission.fileExtensions) THEN 10 ELSE 0)
           - (IF Blank(submission.datasetReference) THEN 10 ELSE 0))

expectedExtensions(format) ==
    CASE format = "CSV" -> {"csv", "tsv"}
      [] format = "IMAGE" -> {"jpg", "jpeg", "png", "gif", "bmp", "webp"}
      [] format = "AUDIO" -> {"mp3", "wav", "flac", "aac", "ogg"}
      [] format = "TEXT" -> {"txt", "json", "xml", "md"}
      [] format = "VIDEO" -> {"mp4", "avi", "mov", "mkv", "webm"}
      [] OTHER -> {}

\* the TypeError of calling a method on undefined is the value Throws
Throws == Rat(0, 0)

checkFormatCompliance(submission) ==
    IF ~submission.fileExtensions.defined THEN Throws
    ELSE LET extensions == submission.fileExtensions.tokens
             expected == expectedExtensions(submission.format)
             matches == {i \in 1..Len(extensions) : TrimLower(extensions[i]) \in expected}
         IN IF expected = {} THEN Whole(100)
            ELSE Rat(Cardinality(matches) * 100, Len(extensions))

\* the key order of the metrics object
MetricOrder ==
    <<"accuracy", "completeness", "consistency", "validity", "uniqueness",
      "formatCompliance", "distributionScore", "diversityScore", "syntheticQuality",
      "privacyPreservation", "biasScore">>

checkCSVQuality == [accuracy |-> 85, validity |-> 90, consistency |-> 80,
                    distributionScore |-> 75]
checkImageQuality == [validity |-> 90, diversityScore |-> 80, syntheticQuality |-> 85]
checkAudioQuality == [validity |-> 88, syntheticQuality |-> 82]
checkTextQuality == [validity |-> 85, diversityScore |-> 78, biasScore |-> 75,
                     syntheticQuality |-> 80]
checkVideoQuality == [validity |-> 87, syntheticQuality |-> 83]

FormatChecks(format) ==
    CASE format = "CSV" -> checkCSVQuality
      [] format = "IMAGE" -> checkImageQuality
      [] format = "AUDIO" -> checkAudioQuality
      [] format = "TEXT" -> checkTextQuality
      [] format = "VIDEO" -> checkVideoQuality
      [] OTHER -> [validity |-> 80]

\* runQualityChecks without the removal of the null values
runQualityChecks_KeepsNulls(submission) ==
    LET specific == FormatChecks(submission.format)
    IN [m \in Range(MetricOrder) |->
           IF m \in DOMAIN specific THEN Whole(specific[m])
           ELSE IF m = "completeness" THEN Whole(checkCompleteness(submission))
           ELSE IF m = "formatCompliance" THEN checkFormatCompliance(submission)
           ELSE Rat(NullNum, 1)]

\* the metrics object after the null values were deleted
runQualityChecks(submission) ==
    LET specific == FormatChecks(submission.format)
        present == {"completeness", "formatCompliance"} \cup DOMAIN specific
    IN [m \in present |->
           IF m \in DOMAIN specific THEN Whole(specific[m])
           ELSE IF m = "completeness" THEN Whole(checkCompleteness(submission))
           ELSE checkFormatCompliance(submission)]

\* the keys of metrics in the order of Object.entries
RECURSIVE KeysFrom(_, _)
KeysFrom(metrics, i) ==
    IF i > Len(MetricOrder) THEN <<>>
    ELSE (IF MetricOrder[i] \in DOMAIN metrics THEN <<MetricOrder[i]>> ELSE <<>>)
         \o KeysFrom(metrics, i + 1)

Keys(metrics) == KeysFrom(metrics, 1)

RECURSIVE SumOver(_, _, _)
SumOver(metrics, keys, den) ==
    IF keys = <<>> THEN 0
    ELSE metrics[Head(keys)].num * (den \div metrics[Head(keys)].den)
         + SumOver(metrics, Tail(keys), den)

\* Math.round of num / den, for num >= 0
Round(num, den) == (2 * num + den) \div (2 * den)

\* a metric that is null, which Object.values keeps and the filter drops
NullMetric == Rat(NullNum, 1)

\* typeof v === 'number'
TypeofNumber(v) == v # NullMetric

\* the mean over every key of the map, a null counted as 0
calculateOverallScore_NullAsZero(metrics) ==
    LET keys == Keys(metrics)
        values == SelectSeq(keys, LAMBDA k : TypeofNumber(metrics[k]))
        den == IF "formatCompliance" \in DOMAIN metrics
                  /\ TypeofNumber(metrics["formatCompliance"])
               THEN metrics["formatCompliance"].den ELSE 1
    IN IF keys = <<>> THEN 0
       ELSE Round(SumOver(metrics, values, den), den * Len(keys))

calculateOverallScore(metrics) ==
    LET keys == SelectSeq(Keys(metrics), LAMBDA k : TypeofNumber(metrics[k]))
        den == IF "formatCompliance" \in DOMAIN metrics
               THEN metrics["formatCompliance"].den ELSE 1
    IN IF keys = <<>> THEN 0
       ELSE Round(SumOver(metrics, keys, den), den * Len(keys))

Issue(severity, category, location) ==
    [severity |-> severity, category |-> category, location |-> location]

RECURSIVE MetricIssues(_, _)
MetricIssues(metrics, keys) ==
    IF keys = <<>> THEN <<>>
    ELSE (IF Less(metrics[Head(keys)], 60)
          THEN <<Issue("high", Head(keys), "dataset")>>
          ELSE IF Less(metrics[Head(keys)], 75)
          THEN <<Issue("medium", Head(keys), "dataset")>>
          ELSE <<>>)
         \o MetricIssues(metrics, Tail(keys))

GiB == 1024 * 1024 * 1024

\* identifyIssues with the fileSize issue from 1 GiB on
identifyIssues_FromOneGiB(metrics, submission) ==
    MetricIssues(metrics, Keys(metrics))
    \o (IF submission.fileSize >= GiB
        THEN <<Issue("medium", "fileSize", "metadata")>> ELSE <<>>)

identifyIssues(metrics, submission) ==
    MetricIssues(metrics, Keys(metrics))
    \o (IF submission.fileSize > GiB
        THEN <<Issue("medium", "fileSize", "metadata")>> ELSE <<>>)

\* generateSummary taking the critical score over every metric
generateSummary_CriticalOverAll(metrics, overallScore, approved) ==
    LET den == IF "formatCompliance" \in DOMAIN metrics
               THEN metrics["formatCompliance"].den ELSE 1
    IN [status |-> IF approved THEN "APPROVED" ELSE "REJECTED",
        overallScore |-> overallScore,
        criticalScore |->
            IF DOMAIN metrics = {} THEN overallScore
            ELSE Round(SumOver(metrics, Keys(metrics), den),
                       den * Cardinality(DOMAIN metrics)),
        metricsCount |-> Cardinality(DOMAIN metrics)]

generateSummary(metrics, overallScore, approved) ==
    LET critical == [m \in {"accuracy", "validity", "formatCompliance"}
                          \cap DOMAIN metrics |-> metrics[m]]
        den == IF "formatCompliance" \in DOMAIN metrics
               THEN metrics["formatCompliance"].den ELSE 1
    IN [status |-> IF approved THEN "APPROVED" ELSE "REJECTED",
        overallScore |-> overallScore,
        criticalScore |->
            IF DOMAIN critical = {} THEN overallScore
            ELSE Round(SumOver(critical, Keys(critical), den),
                       den * Cardinality(DOMAIN critical)),
        metricsCount |-> Cardinality(DOMAIN metrics)]

\* options.threshold || 70
DefaultThreshold == 70
ThresholdOf(options) ==
    IF options.threshold = NullNum \/ options.threshold = 0 THEN DefaultThreshold
    ELSE options.threshold

\* the document of AIModelLog.create at the start of a verification
NewModelLog(submission) ==
    [submissionId |-> submission.submissionId, requestId |-> submission.requestId,
     operationType |-> "quality_check", status |-> "processing",
     performance |-> [executionTime |-> NullNum],
     outputs |-> [ipfsCid |-> Null, localPath |-> Null],
     selfVerificationScore |-> NullNum]

\* the validators of aiModelLogSchema
ValidModelLog(doc) ==
    /\ doc.operationType \in {"generation", "verification", "quality_check",
                              "preprocessing", "postprocessing"}
    /\ doc.status \in {"pending", "processing", "completed", "failed"}
    /\ doc.performance.executionTime # NullNum
    /\ doc.selfVerificationScore \in {NullNum} \cup 0..100

\* the validators of qualityVerificationSchema
ValidVerification(doc) ==
    /\ doc.overallScore \in 0..100
    /\ doc.reportCid # Null
    /\ \A m \in DOMAIN doc.metrics :
           ~Less(doc.metrics[m], 0) /\ ~Less(Whole(100), 0) /\
           doc.metrics[m].num <= 100 * doc.metrics[m].den

\* the unique index { submissionId: 1 } of the qualityverifications collection
DuplicateKey(doc) ==
    \E i \in 1..Len(verifications) : verifications[i].submissionId = doc.submissionId

QCalls == 1..NumQCalls

IdleQCall ==
    [pc |-> "idle", submission |-> <<>>, threshold |-> 0, existing |-> FALSE,
     ipfs |-> FALSE, storage |-> "ok",
     log |-> 0, approved |-> FALSE, overallScore |-> 0, reportCid |-> Null,
     error |-> "", result |-> <<>>]

QFailed(qcall, error) == [qcall EXCEPT !.pc = "failed", !.error = error]

\* IPFSService.initialize: ok is whether client.version() answers
ipfsInitialize(ok) ==
    /\ ipfsInitialized' = ok
    /\ UNCHANGED <<clientVars, ledgerVars, calls, syncs, listeners, deliveries,
                   mirrorVars, qcalls, modelLogs, verifications, storageVars>>

\* QualityService.verifySubmission, one await per step: the creation of the
\* model log; the checks and the upload of the report; the creation of the
\* verification record; markCompleted; the final save of the model log.
\* storage is what the upload and the pin of this invocation's report answer;
\* ipfs is ipfsService.initialized as the invocation last saw it.
qualityVerifySubmission(q, submission, options, storage) ==
    LET call == qcalls[q] IN
    /\ call.pc \in {"idle", "logged", "reported", "recorded", "completed"}
    /\ UNCHANGED <<clientVars, ledgerVars, calls, syncs, listeners, deliveries,
                   mirrorVars, ipfsInitialized, storageVars>>
    /\ CASE call.pc = "idle" ->
              LET begun == [call EXCEPT !.submission = <<submission>>,
                                !.threshold = ThresholdOf(options),
                                !.existing = DuplicateKey(submission),
                                !.ipfs = ipfsInitialized, !.storage = storage]
              IN IF ~ValidModelLog(NewModelLog(submission))
                 THEN /\ qcalls' = [qcalls EXCEPT ![q] = QFailed(begun, "ValidationError")]
                      /\ UNCHANGED <<modelLogs, verifications>>
                 ELSE /\ modelLogs' = Append(modelLogs, NewModelLog(submission))
                      /\ qcalls' = [qcalls EXCEPT ![q] =
                             [begun EXCEPT !.pc = "logged", !.log = Len(modelLogs) + 1]]
                      /\ UNCHANGED verifications
         [] call.pc = "logged" ->
              LET metrics == runQualityChecks(call.submission[1])
                  overallScore == calculateOverallScore(metrics)
              IN /\ UNCHANGED <<modelLogs, verifications>>
                 /\ qcalls' = [qcalls EXCEPT ![q] =
                        IF metrics["formatCompliance"] = Throws
                        THEN QFailed(call, "TypeError")
                        ELSE IF ipfsInitialized /\ call.storage # "ok"
                        THEN QFailed([call EXCEPT !.ipfs = TRUE], "StorageError")
                        ELSE [call EXCEPT !.pc = "reported",
                                 !.ipfs = ipfsInitialized,
                                 !.overallScore = overallScore,
                                 !.approved = (overallScore >= call.threshold),
                                 !.reportCid = IF ipfsInitialized THEN "QmReport"
                                               ELSE Null]]
         [] call.pc = "reported" ->
              LET metrics == runQualityChecks(call.submission[1])
                  doc == [submissionId |-> call.submission[1].submissionId,
                          requestId |-> call.submission[1].requestId,
                          approved |-> call.approved,
                          overallScore |-> call.overallScore,
                          metrics |-> metrics,
                          reportCid |-> call.reportCid,
                          issues |-> identifyIssues(metrics, call.submission[1])]
              IN /\ UNCHANGED modelLogs
                 /\ IF ~ValidVerification(doc)
                    THEN /\ qcalls' = [qcalls EXCEPT ![q] = QFailed(call, "ValidationError")]
                         /\ UNCHANGED verifications
                    ELSE IF DuplicateKey(doc)
                    THEN /\ qcalls' = [qcalls EXCEPT ![q] = QFailed(call, "DuplicateKey")]
                         /\ UNCHANGED verifications
                    ELSE /\ verifications' = Append(verifications, doc)
                         /\ qcalls' = [qcalls EXCEPT ![q] = [call EXCEPT !.pc = "recorded"]]
         [] call.pc = "recorded" ->
              LET marked == [modelLogs[call.log] EXCEPT
                                !.status = "completed",
                                !.outputs = [ipfsCid |-> call.reportCid,
                                             localPath |-> call.reportCid]]
              IN /\ UNCHANGED verifications
                 /\ IF ~ValidModelLog(marked)
                    THEN /\ qcalls' = [qcalls EXCEPT ![q] = QFailed(call, "ValidationError")]
                         /\ UNCHANGED modelLogs
                    ELSE /\ modelLogs' = [modelLogs EXCEPT ![call.log] = marked]
                         /\ qcalls' = [qcalls EXCEPT ![q] = [call EXCEPT !.pc = "completed"]]
         [] call.pc = "completed" ->
              /\ modelLogs' = [modelLogs EXCEPT ![call.log] =
                     [@ EXCEPT !.performance = [executionTime |-> 1],
                               !.selfVerificationScore = call.overallScore]]
              /\ qcalls' = [qcalls EXCEPT ![q] = [call EXCEPT !.pc = "done",
                     !.result = <<[approved |-> call.approved,
                                   overallScore |-> call.overallScore,
                                   reportCid |-> call.reportCid]>>]]
              /\ UNCHANGED verifications

(***************************************************************************)
(* Read and storage operations.  Each one is a single call whose outcome   *)
(* is left in lastOp: ready is the service's initialized flag when the     *)
(* operation was invoked, called is whether the ledger or the storage      *)
(* backend was called, ok is whether that backend call succeeded.          *)
(***************************************************************************)
\* this.ensureInitialized(); try { return await backend } catch { throw wrapped }
GuardedCall(svc, op, ready, ok, value, failure) ==
    IF ~ready THEN Outcome(svc, op, FALSE, FALSE, "NotInitialized", <<>>)
    ELSE IF ok THEN Outcome(svc, op, TRUE, TRUE, "", <<value>>)
    ELSE Outcome(svc, op, TRUE, TRUE, failure, <<>>)

\* the contract's getBuyerRequests(address)
ChainBuyerRequests(buyerAddress) ==
    SelectSeq([i \in 1..Len(chainRequests) |-> i],
              LAMBDA i : ToLowerCase(chainRequests[i].buyer) = ToLowerCase(buyerAddress))

\* the contract's getSellerSubmissions(address)
ChainSellerSubmissions(sellerAddress) ==
    SelectSeq([i \in 1..Len(chainSubmissions) |-> i],
              LAMBDA i : ToLowerCase(chainSubmissions[i].seller)
                             = ToLowerCase(sellerAddress))

RECURSIVE EscrowFrom(_)
EscrowFrom(i) ==
    IF i > Len(chainRequests) THEN 0
    ELSE (IF chainRequests[i].status = 0 THEN chainRequests[i].budget ELSE 0)
         + EscrowFrom(i + 1)

\* the contract's totalEscrowed()
ChainTotalEscrowed == EscrowFrom(1)

getBuyerRequests(buyerAddress, rpc) ==
    /\ lastOp' = GuardedCall("ledger", "getBuyerRequests", initialized, rpc = "ok",
                             ChainBuyerRequests(buyerAddress), "RpcError")
    /\ UNCHANGED <<clientVars, ledgerVars, calls, syncs, listeners, deliveries,
                   mirrorVars, qualityVars, s3Initialized>>

getSellerSubmissions(sellerAddress, rpc) ==
    /\ lastOp' = GuardedCall("ledger", "getSellerSubmissions", initialized, rpc = "ok",
                             ChainSellerSubmissions(sellerAddress), "RpcError")
    /\ UNCHANGED <<clientVars, ledgerVars, calls, syncs, listeners, deliveries,
                   mirrorVars, qualityVars, s3Initialized>>

getTotalEscrowed(rpc) ==
    /\ lastOp' = GuardedCall("ledger", "getTotalEscrowed", initialized, rpc = "ok",
                             toString(ChainTotalEscrowed), "RpcError")
    /\ UNCHANGED <<clientVars, ledgerVars, calls, syncs, listeners, deliveries,
                   mirrorVars, qualityVars, s3Initialized>>

\* S3Service.initialize: without credentials it returns false and leaves the
\* flag as it was; otherwise the flag is whether headBucket answers
s3Initialize(credentials, reachable) ==
    /\ s3Initialized' = IF credentials THEN reachable ELSE s3Initialized
    /\ UNCHANGED <<clientVars, ledgerVars, calls, syncs, listeners, deliveries,
                   mirrorVars, qualityVars, lastOp>>

\* the S3Service operations of the shape guard, backend call, wrapped rethrow
S3Ops ==
    {"uploadFile", "getFile", "deleteFile", "getSignedUrl", "getUploadSignedUrl",
     "listFiles", "copyFile", "getFileMetadata"}

s3Operation(op, ok) ==
    /\ lastOp' = GuardedCall("s3", op, s3Initialized, ok, "value", "S3Error")
    /\ UNCHANGED <<clientVars, ledgerVars, calls, syncs, listeners, deliveries,
                   mirrorVars, qualityVars, s3Initialized>>

HeadOutcomes == {"found", "NotFound", "error"}

\* S3Service.fileExists: NotFound is the answer false, another error is rethrown
s3FileExists(head) ==
    /\ lastOp' =
           IF ~s3Initialized
           THEN Outcome("s3", "fileExists", FALSE, FALSE, "NotInitialized", <<>>)
           ELSE IF head = "error"
           THEN Outcome("s3", "fileExists", TRUE, TRUE, "S3Error", <<>>)
           ELSE Outcome("s3", "fileExists", TRUE, TRUE, "", <<head = "found">>)
    /\ UNCHANGED <<clientVars, ledgerVars, calls, syncs, listeners, deliveries,
                   mirrorVars, qualityVars, s3Initialized>>

\* the IPFSService operations of the shape guard, backend call, wrapped rethrow
IpfsOps == {"uploadContent", "uploadFile", "getContent", "pinContent"}

ipfsOperation(op, ok) ==
    /\ lastOp' = GuardedCall("ipfs", op, ipfsInitialized, ok, "value", "IpfsError")
    /\ UNCHANGED <<clientVars, ledgerVars, calls, syncs, listeners, deliveries,
                   mirrorVars, qualityVars, s3Initialized>>

\* IPFSService.unpinContent: the guard is outside the try, a backend error is
\* the answer false
ipfsUnpinContent(ok) ==
    /\ lastOp' =
           IF ~ipfsInitialized
           THEN Outcome("ipfs", "unpinContent", FALSE, FALSE, "NotInitialized", <<>>)
           ELSE Outcome("ipfs", "unpinContent", TRUE, TRUE, "", <<ok>>)
    /\ UNCHANGED <<clientVars, ledgerVars, calls, syncs, listeners, deliveries,
                   mirrorVars, qualityVars, s3Initialized>>

\* IPFSService.verifyCID: the guard is inside the try, whose catch answers false
ipfsVerifyCID(ok) ==
    /\ lastOp' =
           IF ~ipfsInitialized
           THEN Outcome("ipfs", "verifyCID", FALSE, FALSE, "", <<FALSE>>)
           ELSE Outcome("ipfs", "verifyCID", TRUE, TRUE, "", <<ok>>)
    /\ UNCHANGED <<clientVars, ledgerVars, calls, syncs, listeners, deliveries,
                   mirrorVars, qualityVars, s3Initialized>>

(***************************************************************************)
(* EventIngestor: setupEventListeners registers one contract.on listener   *)
(* per handler that was passed.                                            *)
(***************************************************************************)
EventOfHandler ==
    [onRequestCreated |-> "RequestCreated",
     onSubmissionSubmitted |-> "SubmissionSubmitted",
     onSubmissionVerified |-> "SubmissionVerified"]

AllHandlers == DOMAIN EventOfHandler

setupEventListeners(handlers) ==
    /\ IF ~initialized
       THEN /\ lastOp' = Outcome("ledger", "setupEventListeners", FALSE, FALSE,
                                 "NotInitialized", <<>>)
            /\ UNCHANGED listeners
       ELSE /\ lastOp' = Outcome("ledger", "setupEventListeners", TRUE, TRUE, "",
                                 <<>>)
            /\ listeners' = listeners \cup {EventOfHandler[h] : h \in handlers}
    /\ UNCHANGED <<clientVars, ledgerVars, calls, syncs, deliveries, mirrorVars,
                   qualityVars, s3Initialized>>

(***************************************************************************)
(* Specification of the orchestrated writes.                               *)
(***************************************************************************)
Init ==
    /\ env \in Environments
    /\ initialized = FALSE
    /\ signer = FALSE
    /\ provider = "null"
    /\ contract = "null"
    /\ chainRequests = <<>>
    /\ chainSubmissions = <<>>
    /\ emitted = <<>>
    /\ calls = [c \in Calls |-> IdleCall]
    /\ syncs = [k \in Syncs |-> IdleSync]
    /\ listeners = {}
    /\ deliveries = <<>>
    /\ mirrorRequests = {}
    /\ mirrorSubmissions = {}
    /\ ipfsInitialized = FALSE
    /\ qcalls = [q \in QCalls |-> IdleQCall]
    /\ modelLogs = <<>>
    /\ verifications = <<>>
    /\ s3Initialized = FALSE
    /\ lastOp = NoOp

Next ==
    \/ initialize
    \/ \E c \in Calls, formatsMask \in MaskInputs, sendOk \in BOOLEAN :
           createRequest(c, formatsMask, "desc", 1000, sendOk)
    \/ \E c \in Calls, requestId \in 1..MaxRequests, format \in FormatInputs,
          sendOk \in BOOLEAN :
           submitDataset(c, requestId, format, sendOk)
    \/ \E c \in Calls, submissionId \in 1..MaxSubmissions, approved \in BOOLEAN,
          qualityScore \in ScoreInputs, sendOk \in BOOLEAN :
           verifySubmission(c, submissionId, approved, qualityScore, sendOk)
    \/ \E c \in Calls, revert, finalize \in BOOLEAN, shape \in LogShapes :
           TxWait(c, revert, finalize, shape)
    \/ \E c \in Calls, rpc \in RpcOutcomes : Resume(c, rpc)
    \/ \E tx \in ExternalTxs : ExternalTx(tx)
    \/ setupEventListeners(AllHandlers)

Spec == Init /\ [][Next]_vars

(***************************************************************************)
(* Properties of the orchestrated writes.                                  *)
(***************************************************************************)
Began(call) == call.pc # "idle"

\* C1: createRequest with formatsMask = 0 fails with an invalid-formats-mask
\* error (or on an earlier precondition guard) before any ledger call: no
\* transaction is sent.
C1_ZeroMaskRejectedBeforeLedgerCall ==
    \A c \in Calls :
        (calls[c].op = "createRequest" /\ calls[c].args.formatsMask = 0) =>
            /\ calls[c].pc = "failed"
            /\ calls[c].error \in {"InvalidFormatsMask", "NotInitialized", "SignerMissing"}
            /\ ~calls[c].sendAttempted
            /\ ~calls[c].txSubmitted

PreConfirmationErrors ==
    {"NotInitialized", "SignerMissing", "SendFailed", "TransactionReverted"}

\* C2: an orchestrated write syncs only after its transaction was submitted and
\* confirmed; a call that fails before or at confirmation has performed no
\* sync and the mirror is as it was.
C2_SyncOnlyAfterConfirmedReceipt ==
    \A c \in Calls :
        /\ calls[c].syncLog # <<>> => (calls[c].txSubmitted /\ calls[c].confirmed)
        /\ (calls[c].pc = "failed" /\ calls[c].error \in PreConfirmationErrors) =>
               /\ calls[c].syncLog = <<>>
               /\ mirrorRequests = {}
               /\ mirrorSubmissions = {}

C2_Witness ==
    \E c, d \in Calls :
        /\ calls[c].pc = "failed" /\ calls[c].error = "TransactionReverted"
        /\ calls[c].syncLog = <<>>
        /\ calls[d].pc = "done" /\ calls[d].syncLog # <<>>

\* the request a call's own transaction finalized, if any
FinalizedBy(call) ==
    {call.logs[i].requestId : i \in {j \in 1..Len(call.logs) :
        call.logs[j].name \in {"PaymentReleased", "RefundIssued"}}}

\* C8: a confirmed orchestrated verifySubmission has called syncSubmission(id)
\* and, when its transaction finalized the parent request, syncRequest of that
\* request too, whether or not a listener is registered.
C8_VerifySyncsSubmissionAndRequest ==
    \A c \in Calls :
        (calls[c].op = "verifySubmission" /\ calls[c].pc = "done") =>
            /\ SyncEntry("syncSubmission", calls[c].args.submissionId)
                   \in Range(calls[c].syncLog)
            /\ \A r \in FinalizedBy(calls[c]) :
                   SyncEntry("syncRequest", r) \in Range(calls[c].syncLog)

ExpectedEvent ==
    [createRequest |-> "RequestCreated", submitDataset |-> "SubmissionSubmitted"]

HasEvent(logs, name) == \E i \in 1..Len(logs) : logs[i].name = name

\* C11: a confirmed createRequest / submitDataset whose receipt holds no log
\* that parses as the expected event fails with the event-not-found error,
\* with no sync and no id returned; a receipt that holds the event next to
\* logs that cannot be parsed does not fail that way.
C11_MissingEventFailsUnparsableSkipped ==
    \A c \in Calls :
        (calls[c].op \in DOMAIN ExpectedEvent /\ calls[c].confirmed
         /\ calls[c].pc \in {"failed", "done"}) =>
            IF HasEvent(calls[c].logs, ExpectedEvent[calls[c].op])
            THEN calls[c].error # "EventNotFound"
            ELSE /\ calls[c].pc = "failed"
                 /\ calls[c].error = "EventNotFound"
                 /\ calls[c].syncLog = <<>>
                 /\ calls[c].result = <<>>

C11_Witness ==
    \E c, d \in Calls :
        /\ calls[c].op = "createRequest" /\ calls[c].confirmed
        /\ calls[c].pc = "failed" /\ calls[c].error = "EventNotFound"
        /\ calls[c].logs = <<ForeignLog>>
        /\ calls[d].op = "submitDataset" /\ calls[d].pc = "done"
        /\ calls[d].logs[1] = ForeignLog

\* a step in which a write invoked on an initialized service without a signer
\* fails with the signer-missing error and sends nothing
SignerGuardedStep ==
    \A c \in Calls :
        (calls[c].pc = "idle" /\ calls'[c].pc # "idle" /\ initialized /\ ~signer) =>
            /\ calls'[c].pc = "failed"
            /\ calls'[c].error = "SignerMissing"
            /\ ~calls'[c].sendAttempted
            /\ ~calls'[c].txSubmitted
            /\ UNCHANGED ledgerVars

\* C17: createRequest, submitDataset and verifySubmission invoked on an
\* initialized service that has no signing identity fail with the
\* signer-missing error without submitting any transaction.
C17_NoSignerNoTransaction == [][SignerGuardedStep]_vars

C17_Witness ==
    /\ initialized /\ ~signer
    /\ \A op \in {"createRequest", "submitDataset"} :
           \E c \in Calls : calls[c].op = op /\ calls[c].error = "SignerMissing"

\* C18: submitDataset with a format name that is not one of the ledger's
\* format names fails with the invalid-format error (or on an earlier guard)
\* before any ledger call, with no transaction and no sync; for a recognized
\* name the index sent, and stored by the ledger, is the name's enum index.
C18_UnknownFormatRejectedKnownIndexed ==
    \A c \in Calls :
        calls[c].op = "submitDataset" =>
            IF calls[c].args.format \notin DOMAIN DATA_FORMATS
            THEN /\ calls[c].pc = "failed"
                 /\ calls[c].error \in {"InvalidFormat", "NotInitialized", "SignerMissing"}
                 /\ ~calls[c].sendAttempted
                 /\ ~calls[c].txSubmitted
                 /\ calls[c].syncLog = <<>>
            ELSE /\ calls[c].error # "InvalidFormat"
                 /\ calls[c].txSubmitted =>
                        TxOf(calls[c], FALSE).format = DATA_FORMATS[calls[c].args.format]
                 /\ calls[c].pc = "done" =>
                        chainSubmissions[calls[c].result[1].id].format
                            = DATA_FORMATS[calls[c].args.format]

C18_Witness ==
    \E c, d \in Calls :
        /\ calls[c].op = "submitDataset" /\ calls[c].args.format = "PDF"
        /\ calls[c].error = "InvalidFormat"
        /\ calls[d].op = "submitDataset" /\ calls[d].args.format = "CSV"
        /\ calls[d].pc = "done"

\* C33: submitDataset rejects a format as invalid only when isValidFormat
\* rejects that name: every name the validator accepts, in whatever case, is
\* accepted by submitDataset.
C33_ValidatorAcceptedFormatIsSubmitted ==
    \A c \in Calls :
        (calls[c].op = "submitDataset" /\ calls[c].error = "InvalidFormat") =>
            ~isValidFormat(calls[c].args.format)

\* C19: initialize() fails with the configuration error whenever the RPC
\* endpoint or the contract address is absent, whatever the reachability of the
\* endpoint, and with the connection error when both are present and the
\* endpoint is unreachable; the failed call leaves the service not initialized.
C19_InitializeErrors ==
    lastOp.op = "initialize" =>
        /\ (~env.rpcUrl \/ ~env.contractAddress) => lastOp.error = "ConfigError"
        /\ (env.rpcUrl /\ env.contractAddress /\ ~env.reachable) =>
               lastOp.error = "ConnectionError"
        /\ lastOp.error # "" => ~initialized

(***************************************************************************)
(* The orchestrated writes under the scheduling the code can rely on: the  *)
(* continuation of a call whose receipt has arrived is run by the event    *)
(* loop.  Whether and when the ledger confirms a transaction is not in the *)
(* program's hands, and the code arms no timer on `tx.wait()`.             *)
(***************************************************************************)
SpecLive ==
    /\ Init
    /\ [][Next]_vars
    /\ \A c \in Calls : WF_vars(\E rpc \in RpcOutcomes : Resume(c, rpc))

\* C15: every orchestrated write that has submitted its transaction
\* eventually returns or fails, the confirmation wait ending with a timeout
\* error when the ledger does not confirm the transaction.
C15_WriteEventuallyEnds ==
    \A c \in Calls :
        (calls[c].pc = "sent") ~> (calls[c].pc \in {"done", "failed"})

(***************************************************************************)
(* Direct calls of syncRequest / syncSubmission, concurrent with ledger    *)
(* updates.  A call is suspended at its contract read between SyncRead and *)
(* SyncReturn; version is the count of events emitted when the read was    *)
(* served.                                                                 *)
(***************************************************************************)
SyncRead(k, fn, id, rpc) ==
    /\ syncs[k].pc = "idle"
    /\ syncs' = [syncs EXCEPT ![k] =
           IF ~initialized
           THEN [@ EXCEPT !.fn = fn, !.id = id, !.pc = "done",
                          !.result = SyncFailure("NotInitialized")]
           ELSE IF rpc # "ok"
           THEN [@ EXCEPT !.fn = fn, !.id = id, !.pc = "done",
                          !.result = SyncFailure("RpcError")]
           ELSE [@ EXCEPT !.fn = fn, !.id = id, !.pc = "reading",
                          !.version = Len(emitted),
                          !.raw = IF fn = "syncRequest" THEN <<ReadRequest(id)>>
                                  ELSE <<ReadSubmission(id)>>]]
    /\ UNCHANGED <<clientVars, ledgerVars, calls, listeners, deliveries, mirrorVars, qualityVars, storageVars>>

\* SyncReturn applying a delta to what the previous call produced
SyncReturn_Delta(k) ==
    /\ syncs[k].pc = "reading"
    /\ LET decoded == IF syncs[k].fn = "syncRequest"
                      THEN DecodeRequest(syncs[k].raw[1])
                      ELSE DecodeSubmission(syncs[k].raw[1])
           earlier == {j \in Syncs : syncs[j].pc = "done" /\ syncs[j].result.ok}
       IN syncs' = [syncs EXCEPT ![k] = [@ EXCEPT !.pc = "done", !.result =
              IF decoded.ok /\ earlier # {}
              THEN SyncSuccess([decoded.record[1] EXCEPT !.requestId = @ + 1])
              ELSE decoded]]
    /\ UNCHANGED <<clientVars, ledgerVars, calls, listeners, deliveries, mirrorVars, qualityVars, storageVars>>

\* the rest of the call once the read has resolved: the sentinel check, the
\* decoding and the return of the record; nothing is written to the mirror
SyncReturn(k) ==
    /\ syncs[k].pc = "reading"
    /\ syncs' = [syncs EXCEPT ![k] = [@ EXCEPT !.pc = "done", !.result =
           IF syncs[k].fn = "syncRequest" THEN DecodeRequest(syncs[k].raw[1])
           ELSE DecodeSubmission(syncs[k].raw[1])]]
    /\ UNCHANGED <<clientVars, ledgerVars, calls, listeners, deliveries, mirrorVars, qualityVars, storageVars>>

SyncFns == {"syncRequest", "syncSubmission"}

NextSync ==
    \/ initialize
    \/ \E tx \in ExternalTxs : ExternalTx(tx)
    \/ \E k \in Syncs, fn \in SyncFns, id \in 1..(MaxSubmissions + 1),
          rpc \in RpcOutcomes : SyncRead(k, fn, id, rpc)
    \/ \E k \in Syncs : SyncReturn(k)

SpecSync == Init /\ [][NextSync]_vars

Done(k) == syncs[k].pc = "done"
Returned(k) == Done(k) /\ syncs[k].raw # <<>>

ReadersOf(id) == {k \in Syncs : syncs[k].fn = "syncSubmission" /\ syncs[k].id = id
                                /\ syncs[k].raw # <<>>}

\* C6: once all concurrent syncSubmission calls of an id have completed, the
\* mirror record of the id is the record decoded from the most current ledger
\* state any of them read.
C6_MirrorConvergesToNewestRead ==
    \A id \in 1..MaxSubmissions :
        ( /\ ReadersOf(id) # {}
          /\ \A k \in Syncs : syncs[k].pc \in {"idle", "done"}
          /\ \E k \in ReadersOf(id) : syncs[k].result.ok )
        => LET newest == CHOOSE k \in ReadersOf(id) :
                             \A j \in ReadersOf(id) : syncs[j].version <= syncs[k].version
           IN {m \in mirrorSubmissions : m.submissionId = id}
                  = {SubmissionData(syncs[newest].raw[1])}

\* C7: a read that returns the sentinel id 0 makes the sync fail with the
\* not-found error and produce no record, in the result and in the mirror.
C7_SentinelIsNotFound ==
    /\ \A k \in Syncs :
           (Returned(k) /\ syncs[k].raw[1].id = 0) =>
               /\ ~syncs[k].result.ok
               /\ syncs[k].result.error = "NotFound"
               /\ syncs[k].result.record = <<>>
    /\ \A m \in mirrorSubmissions : m.submissionId # 0
    /\ \A m \in mirrorRequests : m.requestId # 0

C7_Witness ==
    \E j, k \in Syncs :
        /\ Returned(j) /\ syncs[j].fn = "syncRequest" /\ syncs[j].raw[1].id = 0
        /\ Returned(k) /\ syncs[k].fn = "syncSubmission" /\ syncs[k].raw[1].id = 0
        /\ syncs[j].result.error = "NotFound" /\ syncs[k].result.error = "NotFound"

\* the record a completed syncRequest / syncSubmission call returned
Produced(k, fn) == Returned(k) /\ syncs[k].fn = fn /\ syncs[k].result.ok

\* C22: every request record syncRequest produces has a formatsMask within
\* 1..63 whose bit i is set if and only if format i is in acceptedFormats,
\* whatever mask the ledger read returned.
C22_SyncedMaskMatchesAcceptedFormats ==
    \A k \in Syncs :
        Produced(k, "syncRequest") =>
            LET record == syncs[k].result.record[1] IN
            /\ record.formatsMask \in 1..63
            /\ \A i \in 0..7 :
                   BitSet(record.formatsMask, i)
                       <=> /\ i < Len(DATA_FORMAT_NAMES)
                           /\ ArrayAt(DATA_FORMAT_NAMES, i) \in Range(record.acceptedFormats)

\* the ledger had logged a verification of a submission of the request when
\* call k read it
VerifiedWhenRead(k) ==
    \E i \in 1..syncs[k].version :
        /\ emitted[i].name = "SubmissionVerified"
        /\ emitted[i].requestId = syncs[k].id

\* C34: the record syncRequest produces for a verified request carries the
\* ledger's quality score s in 0..100 as qualityScore = s; qualityScore is
\* null only for a request that has not been verified.
C34_QualityScoreCopiedFaithfully ==
    \A k \in Syncs :
        Produced(k, "syncRequest") =>
            LET record == syncs[k].result.record[1] IN
            /\ VerifiedWhenRead(k) =>
                   record.qualityScore = syncs[k].raw[1].qualityScore
            /\ record.qualityScore = NullNum => ~VerifiedWhenRead(k)

\* C23: a request record whose finalizedSubmissionId is set references a
\* synchronized submission record whose status is PAID or REFUNDED, also
\* between the separate syncs of the request and of its submission.
C23_FinalizedReferenceIsSettledSubmission ==
    \A k \in Syncs :
        (Produced(k, "syncRequest")
         /\ syncs[k].result.record[1].finalizedSubmissionId # NullNum) =>
            /\ \E j \in Syncs :
                   /\ Produced(j, "syncSubmission")
                   /\ syncs[j].result.record[1].submissionId
                          = syncs[k].result.record[1].finalizedSubmissionId
            /\ \A j \in Syncs :
                   (Produced(j, "syncSubmission")
                    /\ syncs[j].result.record[1].submissionId
                           = syncs[k].result.record[1].finalizedSubmissionId) =>
                       syncs[j].result.record[1].status \in {"PAID", "REFUNDED"}

(***************************************************************************)
(* EventIngestor: the listener callbacks.  The provider delivers a logged  *)
(* event of a listened name, possibly late, out of order or again; the     *)
(* callback of one delivery is suspended at its syncs.                     *)
(***************************************************************************)
NewDelivery(event) ==
    [event |-> event, pc |-> "received", version |-> 0, submission |-> <<>>,
     request |-> <<>>, handlerArg |-> <<>>, error |-> ""]

Deliver(i) ==
    /\ i \in 1..Len(emitted)
    /\ emitted[i].name \in listeners
    /\ Len(deliveries) < MaxDeliveries
    /\ deliveries' = Append(deliveries, NewDelivery(emitted[i]))
    /\ UNCHANGED <<clientVars, ledgerVars, calls, syncs, listeners, mirrorVars, qualityVars, storageVars>>

\* the rejected promise of an async listener: nothing awaits or catches it
Rejected(delivery, error) ==
    [delivery EXCEPT !.pc = "unhandledRejection", !.error = error]

\* the "RequestCreated" callback
onRequestCreated(delivery, rpc) ==
    LET synced == syncRequest(delivery.event.requestId, rpc) IN
    IF ~synced.ok THEN Rejected(delivery, synced.error)
    ELSE [delivery EXCEPT !.pc = "applied", !.version = Len(emitted),
             !.request = synced.record,
             !.handlerArg = <<[requestId |-> delivery.event.requestId]>>]

\* the "SubmissionSubmitted" callback taking the record from the event payload
onSubmissionSubmitted_FromPayload(delivery, rpc) ==
    LET synced == syncSubmission(delivery.event.submissionId, rpc) IN
    IF ~synced.ok THEN Rejected(delivery, synced.error)
    ELSE [delivery EXCEPT !.pc = "applied", !.version = Len(emitted),
             !.submission = <<[synced.record[1] EXCEPT !.status = "PENDING",
                                                       !.qualityChecked = FALSE]>>,
             !.handlerArg = <<[submissionId |-> delivery.event.submissionId,
                               requestId |-> delivery.event.requestId]>>]

\* the "SubmissionSubmitted" callback
onSubmissionSubmitted(delivery, rpc) ==
    LET synced == syncSubmission(delivery.event.submissionId, rpc) IN
    IF ~synced.ok THEN Rejected(delivery, synced.error)
    ELSE [delivery EXCEPT !.pc = "applied", !.version = Len(emitted),
             !.submission = synced.record,
             !.handlerArg = <<[submissionId |-> delivery.event.submissionId,
                               requestId |-> delivery.event.requestId]>>]

\* the "SubmissionVerified" callback invoking the handler once the submission
\* is synced, before the request is
onSubmissionVerified_HandlerBeforeRequestSync(delivery, rpc) ==
    IF delivery.pc = "received"
    THEN LET synced == syncSubmission(delivery.event.submissionId, rpc) IN
         IF ~synced.ok THEN Rejected(delivery, synced.error)
         ELSE [delivery EXCEPT !.pc = "submissionSynced", !.version = Len(emitted),
                  !.submission = synced.record,
                  !.handlerArg = <<[submissionId |-> delivery.event.submissionId,
                                    requestId |-> delivery.event.requestId,
                                    approved |-> delivery.event.approved,
                                    qualityScore |-> delivery.event.qualityScore]>>]
    ELSE LET synced == syncRequest(delivery.event.requestId, rpc) IN
         IF ~synced.ok THEN Rejected(delivery, synced.error)
         ELSE [delivery EXCEPT !.pc = "applied", !.request = synced.record]

\* the "SubmissionVerified" callback: syncSubmission, then syncRequest, then
\* the handler
onSubmissionVerified(delivery, rpc) ==
    IF delivery.pc = "received"
    THEN LET synced == syncSubmission(delivery.event.submissionId, rpc) IN
         IF ~synced.ok THEN Rejected(delivery, synced.error)
         ELSE [delivery EXCEPT !.pc = "submissionSynced", !.version = Len(emitted),
                  !.submission = synced.record]
    ELSE LET synced == syncRequest(delivery.event.requestId, rpc) IN
         IF ~synced.ok THEN Rejected(delivery, synced.error)
         ELSE [delivery EXCEPT !.pc = "applied", !.request = synced.record,
                  !.handlerArg = <<[submissionId |-> delivery.event.submissionId,
                                    requestId |-> delivery.event.requestId,
                                    approved |-> delivery.event.approved,
                                    qualityScore |-> delivery.event.qualityScore]>>]

ListenerStep(d, rpc) ==
    /\ d \in 1..Len(deliveries)
    /\ deliveries[d].pc \in {"received", "submissionSynced"}
    /\ deliveries' = [deliveries EXCEPT ![d] =
           CASE @.event.name = "RequestCreated" -> onRequestCreated(@, rpc)
             [] @.event.name = "SubmissionSubmitted" -> onSubmissionSubmitted(@, rpc)
             [] @.event.name = "SubmissionVerified" -> onSubmissionVerified(@, rpc)]
    /\ UNCHANGED <<clientVars, ledgerVars, calls, syncs, listeners, mirrorVars, qualityVars, storageVars>>

HandlerInputs == SUBSET AllHandlers

NextEvents ==
    \/ initialize
    \/ \E handlers \in HandlerInputs : setupEventListeners(handlers)
    \/ \E tx \in ExternalTxs : ExternalTx(tx)
    \/ \E i \in 1..(MaxRequests + 3 * MaxSubmissions) : Deliver(i)
    \/ \E d \in 1..MaxDeliveries, rpc \in RpcOutcomes : ListenerStep(d, rpc)

SpecEvents == Init /\ [][NextEvents]_vars

Deliveries == 1..Len(deliveries)

MaxEvents == MaxRequests + 3 * MaxSubmissions

Delivered(i) == \E d \in Deliveries : deliveries[d].event = emitted[i]

SpecEventsLive ==
    /\ Init
    /\ [][NextEvents]_vars
    /\ \A i \in 1..MaxEvents : WF_vars(Deliver(i) /\ ~Delivered(i))
    /\ \A d \in 1..MaxDeliveries : WF_vars(ListenerStep(d, "ok"))

SettlementEvents == {"PaymentReleased", "RefundIssued"}

\* the callback of logged event i has completed with records equal to the
\* ledger: the submission PAID or REFUNDED, the request CLOSED
Resynced(i) ==
    \E d \in Deliveries :
        /\ deliveries[d].event = emitted[i]
        /\ deliveries[d].pc = "applied"
        /\ deliveries[d].submission
               = <<SubmissionData(ReadSubmission(emitted[i].submissionId))>>
        /\ deliveries[d].submission[1].status \in {"PAID", "REFUNDED"}
        /\ deliveries[d].request = <<RequestData(ReadRequest(emitted[i].requestId))>>
        /\ deliveries[d].request[1].status = "CLOSED"

\* C24: with the listeners set up for every handler, a logged PaymentReleased
\* or RefundIssued event leads to a re-sync of the submission and the request
\* it references, which then equal the ledger state.
C24_SettlementEventsResync ==
    \A i \in 1..MaxEvents :
        (/\ i <= Len(emitted)
         /\ emitted[i].name \in SettlementEvents
         /\ listeners = {EventOfHandler[h] : h \in AllHandlers})
            ~> (i <= Len(emitted) /\ Resynced(i))

\* C31: once setupEventListeners has returned, each of RequestCreated,
\* SubmissionSubmitted and SubmissionVerified has a listener that syncs the
\* ids of a delivered event, whichever handlers were passed.
C31_SyncListenersWhateverHandlers ==
    (lastOp.op = "setupEventListeners" /\ lastOp.error = "") =>
        {EventOfHandler[h] : h \in AllHandlers} \subseteq listeners

\* the syncs the callback of an event awaits have all succeeded
SyncsDone(delivery) ==
    CASE delivery.event.name = "RequestCreated" ->
             delivery.request # <<>>
      [] delivery.event.name = "SubmissionSubmitted" ->
             delivery.submission # <<>>
      [] delivery.event.name = "SubmissionVerified" ->
             delivery.submission # <<>> /\ delivery.request # <<>>
      [] OTHER -> FALSE

\* C32: a delivered event is received, processed, and then applied or failed:
\* its handler is invoked at most once, only after every sync of the event
\* has succeeded (for SubmissionVerified the submission first, then the
\* request), and never for an event one of whose syncs failed.
C32_HandlerOnlyAfterSyncs ==
    \A d \in Deliveries :
        /\ deliveries[d].pc \in {"received", "submissionSynced", "applied",
                                  "unhandledRejection"}
        /\ Len(deliveries[d].handlerArg) <= 1
        /\ deliveries[d].handlerArg # <<>> =>
               (deliveries[d].pc = "applied" /\ SyncsDone(deliveries[d]))
        /\ deliveries[d].pc = "applied" => deliveries[d].handlerArg # <<>>
        /\ deliveries[d].pc = "submissionSynced" =>
               /\ deliveries[d].event.name = "SubmissionVerified"
               /\ deliveries[d].submission # <<>>
               /\ deliveries[d].request = <<>>
        /\ deliveries[d].pc = "unhandledRejection" =>
               (deliveries[d].error # "" /\ ~SyncsDone(deliveries[d]))

\* a SubmissionVerified event was applied after both of its syncs while the
\* callback of another event failed at its sync
C32_Witness ==
    \E d, f \in Deliveries :
        /\ deliveries[d].event.name = "SubmissionVerified"
        /\ deliveries[d].pc = "applied"
        /\ SyncsDone(deliveries[d])
        /\ deliveries[d].handlerArg # <<>>
        /\ deliveries[f].pc = "unhandledRejection"
        /\ deliveries[f].handlerArg = <<>>

\* C9: the handler of a delivered event is invoked with the record the
\* preceding sync produced, not with the fields of the event payload.
C9_HandlerGetsPostSyncRecord ==
    \A d \in Deliveries :
        deliveries[d].pc = "applied" =>
            \/ deliveries[d].handlerArg = deliveries[d].submission
            \/ deliveries[d].handlerArg = deliveries[d].request

\* C10: a sync failure while ingesting an event is caught and retried or
\* surfaced as a durable-sync failure; it never escapes the listener callback
\* as an unhandled error.
C10_IngestionFailureCaught ==
    \A d \in Deliveries :
        deliveries[d].error # "" =>
            /\ deliveries[d].pc \in {"retrying", "durableSyncFailure"}
            /\ deliveries[d].pc # "unhandledRejection"

(***************************************************************************)
(* Specification of the quality service.  The collections are persistent:  *)
(* a start finds the verification records that are already stored, at most *)
(* one per submission.                                                     *)
(***************************************************************************)
QSubmission(submissionId, format, fileSize, fileExtensions) ==
    [submissionId |-> submissionId, requestId |-> 1, format |-> format,
     fileSize |-> fileSize, sampleCount |-> 1000, fileExtensions |-> fileExtensions,
     datasetReference |-> Str(<<"ref1">>)]

QSubmissions ==
    {QSubmission(1, "CSV", 500000, Str(<<"csv">>)),
     QSubmission(1, "CSV", 0, Str(<<"CSV", "pdf">>)),
     QSubmission(2, "MIXED", GiB + 1, Str(<<" ">>)),
     QSubmission(2, "TEXT", 500000, Undefined)}

ThresholdInputs == {NullNum, 0, 90}
StorageOutcomes == {"ok", "uploadFails", "pinFails"}

StoredVerification ==
    [submissionId |-> 1, requestId |-> 1, approved |-> TRUE, overallScore |-> 88,
     metrics |-> runQualityChecks(QSubmission(1, "CSV", 500000, Str(<<"csv">>))),
     reportCid |-> "QmStored", issues |-> <<>>]

InitQuality ==
    /\ env \in Environments
    /\ initialized = FALSE
    /\ signer = FALSE
    /\ provider = "null"
    /\ contract = "null"
    /\ chainRequests = <<>>
    /\ chainSubmissions = <<>>
    /\ emitted = <<>>
    /\ calls = [c \in Calls |-> IdleCall]
    /\ syncs = [k \in Syncs |-> IdleSync]
    /\ listeners = {}
    /\ deliveries = <<>>
    /\ mirrorRequests = {}
    /\ mirrorSubmissions = {}
    /\ ipfsInitialized = FALSE
    /\ qcalls = [q \in QCalls |-> IdleQCall]
    /\ modelLogs = <<>>
    /\ verifications \in {<<>>, <<StoredVerification>>}
    /\ s3Initialized = FALSE
    /\ lastOp = NoOp

NextQuality ==
    \/ \E ok \in BOOLEAN : ipfsInitialize(ok)
    \/ \E q \in QCalls, submission \in QSubmissions, threshold \in ThresholdInputs,
          storage \in StorageOutcomes :
           qualityVerifySubmission(q, submission, [threshold |-> threshold], storage)

SpecQuality == InitQuality /\ [][NextQuality]_vars

VerificationsOf(submissionId) ==
    {i \in 1..Len(verifications) : verifications[i].submissionId = submissionId}

Ended(q) == qcalls[q].pc \in {"failed", "done"}

\* a submission the checks can process, not yet verified when the call began
Verifiable(q) ==
    /\ qcalls[q].submission[1].fileExtensions.defined
    /\ ~qcalls[q].existing

RecordOf(q) ==
    {i \in VerificationsOf(qcalls[q].submission[1].submissionId) :
        verifications[i].requestId = qcalls[q].submission[1].requestId}

\* C12: with content-addressed storage not initialized, a verification of a
\* verifiable submission still ends with the approval decision and a stored
\* Verification record whose report reference is null.
C12_NoStorageStillRecordsVerification ==
    \A q \in QCalls :
        (Ended(q) /\ Verifiable(q) /\ ~qcalls[q].ipfs) =>
            /\ qcalls[q].pc = "done"
            /\ qcalls[q].result[1].reportCid = Null
            /\ \E i \in RecordOf(q) : verifications[i].reportCid = Null

\* C13: when storage is initialized but the upload or the pin of the report
\* fails, the verification of a verifiable submission still ends with the
\* approval decision and a stored Verification record.
C13_StorageErrorIsNonFatal ==
    \A q \in QCalls :
        (Ended(q) /\ Verifiable(q) /\ qcalls[q].ipfs /\ qcalls[q].storage # "ok") =>
            /\ qcalls[q].pc = "done"
            /\ RecordOf(q) # {}

\* C14: every invocation that has ended left its OperationLog in a final
\* status, completed when it returned and failed when it threw; no log of an
\* ended invocation is still processing.
C14_OperationLogReachesFinalStatus ==
    \A q \in QCalls :
        Ended(q) =>
            /\ qcalls[q].log \in 1..Len(modelLogs)
            /\ modelLogs[qcalls[q].log].status =
                   (IF qcalls[q].pc = "done" THEN "completed" ELSE "failed")

CsvSubmission == QSubmission(1, "CSV", 500000, Str(<<"csv">>))

\* C28: a verification of the CSV submission with fileSize 500000, sampleCount
\* 1000, fileExtensions "csv" and datasetReference "ref1", not verified before
\* and with the default threshold, ends with overallScore 88 and approved.
C28_CsvSubmissionApprovedWith88 ==
    \A q \in QCalls :
        (/\ Ended(q)
         /\ qcalls[q].submission[1] = CsvSubmission
         /\ ~qcalls[q].existing
         /\ qcalls[q].threshold = DefaultThreshold) =>
            /\ qcalls[q].pc = "done"
            /\ qcalls[q].result[1].overallScore = 88
            /\ qcalls[q].result[1].approved

\* C30: the model log that verifySubmission creates satisfies the schema's
\* required fields when it is written (performance.executionTime is set), so
\* that an invocation that has begun has its log stored and goes on towards
\* the creation of the Verification record.
C30_ModelLogValidWhenWritten ==
    \A q \in QCalls :
        qcalls[q].pc # "idle" =>
            /\ ValidModelLog(NewModelLog(qcalls[q].submission[1]))
            /\ qcalls[q].log \in 1..Len(modelLogs)
            /\ ValidModelLog(modelLogs[qcalls[q].log])

(***************************************************************************)
(* Specification of the initialization guards: every operation invoked in  *)
(* every combination of initialized services.                              *)
(***************************************************************************)
NextGuards ==
    \/ initialize
    \/ \E credentials, reachable \in BOOLEAN : s3Initialize(credentials, reachable)
    \/ \E ok \in BOOLEAN : ipfsInitialize(ok)
    \/ \E sendOk \in BOOLEAN : createRequest(1, 2, "desc", 1000, sendOk)
    \/ \E sendOk \in BOOLEAN : submitDataset(1, 1, "CSV", sendOk)
    \/ \E sendOk \in BOOLEAN : verifySubmission(1, 1, TRUE, 88, sendOk)
    \/ \E fn \in SyncFns, rpc \in RpcOutcomes : SyncRead(1, fn, 1, rpc)
    \/ SyncReturn(1)
    \/ \E rpc \in RpcOutcomes : getBuyerRequests(BuyerAddress, rpc)
    \/ \E rpc \in RpcOutcomes : getSellerSubmissions(SellerAddress, rpc)
    \/ \E rpc \in RpcOutcomes : getTotalEscrowed(rpc)
    \/ setupEventListeners(AllHandlers)
    \/ \E op \in S3Ops, ok \in BOOLEAN : s3Operation(op, ok)
    \/ \E head \in HeadOutcomes : s3FileExists(head)
    \/ \E op \in IpfsOps, ok \in BOOLEAN : ipfsOperation(op, ok)
    \/ \E ok \in BOOLEAN : ipfsUnpinContent(ok)
    \/ \E ok \in BOOLEAN : ipfsVerifyCID(ok)

SpecGuards == Init /\ [][NextGuards]_vars

\* a step in which every operation that is invoked on a service that is not
\* initialized fails with the not-initialized error, makes no ledger or
\* storage call and changes nothing else
GuardedStep ==
    /\ \A c \in Calls :
           (calls[c].pc = "idle" /\ calls'[c].pc # "idle" /\ ~initialized) =>
               /\ calls'[c].pc = "failed"
               /\ calls'[c].error = "NotInitialized"
               /\ ~calls'[c].sendAttempted
               /\ UNCHANGED <<clientVars, ledgerVars, mirrorVars, listeners>>
    /\ \A k \in Syncs :
           (syncs[k].pc = "idle" /\ syncs'[k].pc # "idle" /\ ~initialized) =>
               /\ syncs'[k].pc = "done"
               /\ syncs'[k].result = SyncFailure("NotInitialized")
               /\ syncs'[k].raw = <<>>
               /\ UNCHANGED <<clientVars, ledgerVars, mirrorVars, listeners>>
    /\ (lastOp'.op # "none" /\ ~lastOp'.ready) =>
           /\ lastOp'.error = "NotInitialized"
           /\ ~lastOp'.called
           /\ lastOp'.result = <<>>
    /\ (lastOp' # lastOp /\ ~lastOp'.ready) =>
           UNCHANGED <<clientVars, ledgerVars, mirrorVars, listeners, calls, syncs,
                       qualityVars, s3Initialized>>

\* C16: every ledger operation and every storage operation invoked while its
\* service is not initialized fails with the not-initialized error before any
\* ledger or storage call, leaving all state unchanged.
C16_UninitializedOperationsFail == [][GuardedStep]_vars

(***************************************************************************)
(* Specification of the mask decoders: a start draws the mask, a step      *)
(* applies one of the two decoders to it.  Neither decoder has a throw     *)
(* statement; error is "" for a returned value.                            *)
(***************************************************************************)
MaskArgument(mask) ==
    Outcome("validators", "argument", TRUE, FALSE, "", <<[input |-> mask]>>)

Decoded(op, mask, formats) ==
    Outcome("validators", op, TRUE, FALSE, "", <<[input |-> mask, output |-> formats]>>)

InitFormats ==
    /\ env \in Environments
    /\ initialized = FALSE
    /\ signer = FALSE
    /\ provider = "null"
    /\ contract = "null"
    /\ chainRequests = <<>>
    /\ chainSubmissions = <<>>
    /\ emitted = <<>>
    /\ calls = [c \in Calls |-> IdleCall]
    /\ syncs = [k \in Syncs |-> IdleSync]
    /\ listeners = {}
    /\ deliveries = <<>>
    /\ mirrorRequests = {}
    /\ mirrorSubmissions = {}
    /\ ipfsInitialized = FALSE
    /\ qcalls = [q \in QCalls |-> IdleQCall]
    /\ modelLogs = <<>>
    /\ verifications = <<>>
    /\ s3Initialized = FALSE
    /\ lastOp \in {MaskArgument(mask) : mask \in 0..MaxMask}

\* validators.decodeFormatsMask(mask)
callDecodeFormatsMask ==
    /\ lastOp.op = "argument"
    /\ lastOp' = Decoded("decodeFormatsMask", lastOp.result[1].input,
                         decodeFormatsMask(lastOp.result[1].input))
    /\ UNCHANGED <<clientVars, ledgerVars, calls, syncs, listeners, deliveries,
                   mirrorVars, qualityVars, s3Initialized>>

\* DataRequest.decodeFormatsMask(formatsMask)
callDataRequestDecodeFormatsMask ==
    /\ lastOp.op = "argument"
    /\ lastOp' = Decoded("DataRequest.decodeFormatsMask", lastOp.result[1].input,
                         DataRequestDecodeFormatsMask(lastOp.result[1].input))
    /\ UNCHANGED <<clientVars, ledgerVars, calls, syncs, listeners, deliveries,
                   mirrorVars, qualityVars, s3Initialized>>

\* validators.parseFormatsMask applied to the list a decoder returned (origin
\* is the mask the list was decoded from) or to the number drawn
callParseFormatsMask ==
    /\ lastOp.op \in {"argument", "decodeFormatsMask"}
    /\ lastOp' =
           IF lastOp.op = "argument"
           THEN Outcome("validators", "parseFormatsMask", TRUE, FALSE, "",
                        <<[input |-> Number(lastOp.result[1].input),
                           output |-> parseFormatsMask(Number(lastOp.result[1].input)),
                           origin |-> NullNum]>>)
           ELSE Outcome("validators", "parseFormatsMask", TRUE, FALSE, "",
                        <<[input |-> Array(lastOp.result[1].output),
                           output |-> parseFormatsMask(Array(lastOp.result[1].output)),
                           origin |-> lastOp.result[1].input]>>)
    /\ UNCHANGED <<clientVars, ledgerVars, calls, syncs, listeners, deliveries,
                   mirrorVars, qualityVars, s3Initialized>>

NextFormats ==
    \/ callDecodeFormatsMask
    \/ callDataRequestDecodeFormatsMask
    \/ callParseFormatsMask

SpecFormats == InitFormats /\ [][NextFormats]_vars

\* C20: decoding a mask outside 1..63 is rejected as invalid input: the
\* decoder fails for mask 0 and for a mask with a bit above the sixth format,
\* and returns no list for them.
C20_DecodeRejectsInvalidMask ==
    (lastOp.op \in {"decodeFormatsMask", "DataRequest.decodeFormatsMask"}
     /\ lastOp.result[1].input \notin 1..63) =>
        lastOp.error = "InvalidFormatsMask"

\* C21: for every mask in 1..63, bit i of the mask is set exactly when format
\* i is in the list decodeFormatsMask returns, and parseFormatsMask of that
\* list is the mask again.
C21_DecodeThenParseIsIdentity ==
    /\ (lastOp.op = "decodeFormatsMask" /\ lastOp.result[1].input \in 1..63) =>
           \A i \in 0..(Len(DATA_FORMAT_NAMES) - 1) :
               BitSet(lastOp.result[1].input, i)
                   <=> DATA_FORMAT_NAMES[i + 1] \in Range(lastOp.result[1].output)
    /\ (lastOp.op = "parseFormatsMask" /\ lastOp.result[1].origin \in 1..63) =>
           lastOp.result[1].output = lastOp.result[1].origin

C21_Witness ==
    /\ lastOp.op = "parseFormatsMask"
    /\ lastOp.result[1].origin = 42
    /\ lastOp.result[1].input = Array(<<"CSV", "TEXT", "MIXED">>)
    /\ lastOp.result[1].output = 42

(***************************************************************************)
(* The scoring functions of QualityService called on their own: a metrics  *)
(* object is drawn, and each function is applied to it.  A metric is       *)
(* absent from the object, null, or a number; formatCompliance alone can   *)
(* be a fraction (matches / extensions * 100).                             *)
(***************************************************************************)
MetricNames == {"accuracy", "completeness", "formatCompliance", "validity"}

MetricValues ==
    {NullMetric} \cup {Whole(n) : n \in {0, 50, 55, 60, 65, 69, 70, 75, 80, 100}}
                 \cup {Rat(100, 3)}

MetricMaps ==
    {m \in UNION {[names -> MetricValues] : names \in SUBSET MetricNames} :
        \A k \in DOMAIN m : m[k].den = 1 \/ k = "formatCompliance"}

FileSizeArgs == {500000, GiB, GiB + 1}

ThresholdArgs == {NullNum, 0, 69, 70, 100}

MetricsArgument(metrics) ==
    Outcome("quality", "argument", TRUE, FALSE, "", <<[metrics |-> metrics]>>)

InitScores ==
    /\ env = [rpcUrl |-> FALSE, reachable |-> FALSE, contractAddress |-> FALSE,
              privateKey |-> FALSE]
    /\ initialized = FALSE
    /\ signer = FALSE
    /\ provider = "null"
    /\ contract = "null"
    /\ chainRequests = <<>>
    /\ chainSubmissions = <<>>
    /\ emitted = <<>>
    /\ calls = [c \in Calls |-> IdleCall]
    /\ syncs = [k \in Syncs |-> IdleSync]
    /\ listeners = {}
    /\ deliveries = <<>>
    /\ mirrorRequests = {}
    /\ mirrorSubmissions = {}
    /\ ipfsInitialized = FALSE
    /\ qcalls = [q \in QCalls |-> IdleQCall]
    /\ modelLogs = <<>>
    /\ verifications = <<>>
    /\ s3Initialized = FALSE
    /\ lastOp \in {MetricsArgument(metrics) : metrics \in MetricMaps}

\* QualityService.calculateOverallScore(metrics)
callCalculateOverallScore ==
    /\ lastOp.op = "argument"
    /\ lastOp' = Outcome("quality", "calculateOverallScore", TRUE, FALSE, "",
                         <<[metrics |-> lastOp.result[1].metrics,
                            output |-> calculateOverallScore(lastOp.result[1].metrics)]>>)
    /\ UNCHANGED <<clientVars, ledgerVars, calls, syncs, listeners, deliveries,
                   mirrorVars, qualityVars, s3Initialized>>

\* const threshold = options.threshold || 70; approved = overallScore >= threshold
\* applied to the score calculateOverallScore returned
decideApproval(options) ==
    /\ lastOp.op = "calculateOverallScore"
    /\ lastOp' = Outcome("quality", "approved", TRUE, FALSE, "",
                         <<[overallScore |-> lastOp.result[1].output,
                            options |-> options,
                            output |-> (lastOp.result[1].output >= ThresholdOf(options))]>>)
    /\ UNCHANGED <<clientVars, ledgerVars, calls, syncs, listeners, deliveries,
                   mirrorVars, qualityVars, s3Initialized>>

\* QualityService.identifyIssues(metrics, submission) on the metrics that
\* runQualityChecks leaves, which hold no null
callIdentifyIssues(submission) ==
    /\ lastOp.op = "argument"
    /\ \A k \in DOMAIN lastOp.result[1].metrics :
           TypeofNumber(lastOp.result[1].metrics[k])
    /\ lastOp' = Outcome("quality", "identifyIssues", TRUE, FALSE, "",
                         <<[metrics |-> lastOp.result[1].metrics,
                            submission |-> submission,
                            output |-> identifyIssues(lastOp.result[1].metrics,
                                                      submission)]>>)
    /\ UNCHANGED <<clientVars, ledgerVars, calls, syncs, listeners, deliveries,
                   mirrorVars, qualityVars, s3Initialized>>

\* QualityService.generateSummary(metrics, overallScore, approved) on metrics
\* that hold no null and the score calculateOverallScore returned for them
callGenerateSummary(approved) ==
    /\ lastOp.op = "calculateOverallScore"
    /\ \A k \in DOMAIN lastOp.result[1].metrics :
           TypeofNumber(lastOp.result[1].metrics[k])
    /\ lastOp' = Outcome("quality", "generateSummary", TRUE, FALSE, "",
                         <<[metrics |-> lastOp.result[1].metrics,
                            overallScore |-> lastOp.result[1].output,
                            approved |-> approved,
                            output |-> generateSummary(lastOp.result[1].metrics,
                                                       lastOp.result[1].output,
                                                       approved)]>>)
    /\ UNCHANGED <<clientVars, ledgerVars, calls, syncs, listeners, deliveries,
                   mirrorVars, qualityVars, s3Initialized>>

NextScores ==
    \/ callCalculateOverallScore
    \/ \E threshold \in ThresholdArgs : decideApproval([threshold |-> threshold])
    \/ \E fileSize \in FileSizeArgs : callIdentifyIssues([fileSize |-> fileSize])
    \/ \E approved \in BOOLEAN : callGenerateSummary(approved)

SpecScores == InitScores /\ [][NextScores]_vars

\* the numeric metrics of a map, and three times their sum (a metric is a
\* whole number or a number of thirds)
NumericIn(metrics) == {k \in DOMAIN metrics : metrics[k] # NullMetric}

Thirds(value) == value.num * (3 \div value.den)

ThirdsOfSum(metrics) ==
    LET part(k) == IF k \in NumericIn(metrics) THEN Thirds(metrics[k]) ELSE 0
    IN part("accuracy") + part("completeness") + part("formatCompliance")
       + part("validity")

\* C25: calculateOverallScore returns the mean of the numeric metrics present
\* rounded to the nearest integer (a half rounds up), absent and null metrics
\* not counted; 0 when there is none; a value in 0..100 for metrics in 0..100.
C25_OverallScoreIsRoundedMean ==
    lastOp.op = "calculateOverallScore" =>
        LET metrics == lastOp.result[1].metrics
            score == lastOp.result[1].output
            n == Cardinality(NumericIn(metrics))
        IN /\ score \in 0..100
           /\ n = 0 => score = 0
           /\ n > 0 => /\ 2 * 3 * n * score <= 2 * ThirdsOfSum(metrics) + 3 * n
                       /\ 2 * ThirdsOfSum(metrics) + 3 * n < 2 * 3 * n * (score + 1)

C25_Witness ==
    /\ lastOp.op = "calculateOverallScore"
    /\ lastOp.result[1].metrics
           = [completeness |-> Whole(100), formatCompliance |-> Whole(50)]
    /\ lastOp.result[1].output = 75

\* C26: the approval decision is approved = (overallScore >= threshold) for
\* every configured threshold in 0..100, and threshold is 70 when none is
\* configured.
C26_ApprovalIsScoreAtLeastThreshold ==
    lastOp.op = "approved" =>
        LET configured == lastOp.result[1].options.threshold
            threshold == IF configured = NullNum THEN DefaultThreshold ELSE configured
        IN lastOp.result[1].output <=> (lastOp.result[1].overallScore >= threshold)

\* the place of a metric in the order of the metrics object's keys
PlaceOf(metric) == CHOOSE i \in 1..Len(MetricOrder) : MetricOrder[i] = metric

\* C27: identifyIssues gives, for each metric present, exactly one issue of
\* severity high when its score is below 60, exactly one of severity medium
\* when it is in [60, 75), none when it is 75 or more; the issue's category is
\* the metric's name, and the issues follow the order of the metrics.
C27_IssuePerLowMetric ==
    lastOp.op = "identifyIssues" =>
        LET metrics == lastOp.result[1].metrics
            issues == lastOp.result[1].output
            about(k) == {i \in 1..Len(issues) : issues[i].category = k}
            onMetrics == {i \in 1..Len(issues) : issues[i].location = "dataset"}
        IN /\ \A k \in DOMAIN metrics :
                  IF metrics[k].num < 60 * metrics[k].den
                  THEN /\ Cardinality(about(k)) = 1
                       /\ \A i \in about(k) : issues[i].severity = "high"
                  ELSE IF metrics[k].num < 75 * metrics[k].den
                  THEN /\ Cardinality(about(k)) = 1
                       /\ \A i \in about(k) : issues[i].severity = "medium"
                  ELSE about(k) = {}
           /\ \A i \in onMetrics : issues[i].category \in DOMAIN metrics
           /\ \A i, j \in onMetrics :
                  i < j => PlaceOf(issues[i].category) < PlaceOf(issues[j].category)

C27_Witness ==
    /\ lastOp.op = "identifyIssues"
    /\ lastOp.result[1].metrics
           = [completeness |-> Whole(55), validity |-> Whole(80),
              formatCompliance |-> Whole(65)]
    /\ lastOp.result[1].output
           = <<Issue("high", "completeness", "dataset"),
               Issue("medium", "formatCompliance", "dataset")>>

(***************************************************************************)
(* The ledger client over its lifetime: initialize() is called again and   *)
(* again, the environment and the reachability of the RPC endpoint change  *)
(* between the calls, and guarded operations are invoked in between.       *)
(***************************************************************************)
\* process.env and the network as the next initialize() will find them
environmentChanges(e) ==
    /\ e # env
    /\ env' = e
    /\ UNCHANGED <<initialized, signer, provider, contract, ledgerVars, calls, syncs,
                   listeners, deliveries, mirrorVars, qualityVars, storageVars>>

NextClient ==
    \/ initialize
    \/ \E e \in Environments : environmentChanges(e)
    \/ \E rpc \in RpcOutcomes : getTotalEscrowed(rpc)
    \/ \E rpc \in RpcOutcomes : getBuyerRequests(BuyerAddress, rpc)
    \/ setupEventListeners(AllHandlers)

SpecClient == Init /\ [][NextClient]_vars

\* C29: ensureInitialized() succeeds only if the most recent initialize()
\* succeeded: right after an initialize() that failed the guard rejects, also
\* when an earlier initialize() had succeeded, and a service that passes the
\* guard holds a provider and a contract made by the same initialize() call.
C29_GuardFollowsLatestInitialize ==
    /\ (lastOp.op = "initialize" /\ lastOp.error # "") => ~initialized
    /\ initialized => (provider = "sameCall" /\ contract = "created")

\* C37: identifyIssues appends exactly one medium issue of category fileSize
\* if and only if the file size exceeds 1 GiB, whatever the metric scores: a
\* size above 1 GiB yields it with every metric at 100, 1 GiB itself does not.
C37_FileSizeIssueAboveOneGiB ==
    lastOp.op = "identifyIssues" =>
        LET issues == lastOp.result[1].output
            onSize == {i \in 1..Len(issues) : issues[i].category = "fileSize"}
        IN /\ Cardinality(onSize)
                  = (IF lastOp.result[1].submission.fileSize > 1024 * 1024 * 1024
                     THEN 1 ELSE 0)
           /\ \A i \in onSize : /\ issues[i].severity = "medium"
                                /\ issues[i].location = "metadata"
                                /\ i = Len(issues)

C37_Witness ==
    /\ lastOp.op = "identifyIssues"
    /\ lastOp.result[1].metrics
           = [completeness |-> Whole(100), validity |-> Whole(100),
              formatCompliance |-> Whole(100)]
    /\ lastOp.result[1].submission.fileSize > GiB
    /\ lastOp.result[1].output = <<Issue("medium", "fileSize", "metadata")>>

\* the critical metrics of a map, and three times their sum
CriticalIn(metrics) == {"accuracy", "validity", "formatCompliance"} \cap DOMAIN metrics

ThirdsOfCritical(metrics) ==
    LET part(k) == IF k \in CriticalIn(metrics) THEN Thirds(metrics[k]) ELSE 0
    IN part("accuracy") + part("validity") + part("formatCompliance")

\* C40: generateSummary's criticalScore is the rounded mean of those of
\* accuracy, validity and formatCompliance that are present, and overallScore
\* when none of them is; status is APPROVED exactly when the approval flag is
\* true, REJECTED otherwise.
C40_SummaryCriticalScoreAndStatus ==
    lastOp.op = "generateSummary" =>
        LET metrics == lastOp.result[1].metrics
            summary == lastOp.result[1].output
            n == Cardinality(CriticalIn(metrics))
            score == summary.criticalScore
        IN /\ summary.status = (IF lastOp.result[1].approved THEN "APPROVED"
                                ELSE "REJECTED")
           /\ n = 0 => score = lastOp.result[1].overallScore
           /\ n > 0 => /\ 2 * 3 * n * score <= 2 * ThirdsOfCritical(metrics) + 3 * n
                       /\ 2 * ThirdsOfCritical(metrics) + 3 * n
                              < 2 * 3 * n * (score + 1)

C40_Witness ==
    /\ lastOp.op = "generateSummary"
    /\ lastOp.result[1].metrics
           = [accuracy |-> Whole(80), completeness |-> Whole(0),
              validity |-> Whole(65), formatCompliance |-> Rat(100, 3)]
    /\ lastOp.result[1].approved
    /\ lastOp.result[1].output.status = "APPROVED"
    /\ lastOp.result[1].output.criticalScore = 59
    /\ lastOp.result[1].overallScore = 45

(***************************************************************************)
(* The checks of QualityService called on their own: a submission is       *)
(* drawn, with fields that are missing, zero or blank, and each check is   *)
(* applied to it.                                                          *)
(***************************************************************************)
FormatArgs == {"CSV", "IMAGE", "AUDIO", "TEXT", "VIDEO", "MIXED", "PDF"}

ExtensionArgs ==
    {Undefined, Str(<<"">>), Str(<<" ">>), Str(<<"csv">>), Str(<<"CSV", " tsv">>),
     Str(<<"csv", "pdf">>), Str(<<"csv", "pdf", "txt">>), Str(<<"png">>)}

SubmissionArgs ==
    [submissionId : {1}, requestId : {1}, format : FormatArgs,
     fileSize : {NullNum, 0, 500000}, sampleCount : {NullNum, 0, 1000},
     fileExtensions : ExtensionArgs,
     datasetReference : {Undefined, Str(<<" ">>), Str(<<"ref1">>)}]

SubmissionArgument(submission) ==
    Outcome("quality", "argument", TRUE, FALSE, "", <<[submission |-> submission]>>)

\* what a check called with submission leaves: its value, or the TypeError of
\* reading a method of undefined
Checked(op, submission, value, thrown) ==
    IF thrown
    THEN Outcome("quality", op, TRUE, FALSE, "TypeError",
                 <<[submission |-> submission]>>)
    ELSE Outcome("quality", op, TRUE, FALSE, "",
                 <<[submission |-> submission, output |-> value]>>)

InitChecks ==
    /\ env \in Environments
    /\ initialized = FALSE
    /\ signer = FALSE
    /\ provider = "null"
    /\ contract = "null"
    /\ chainRequests = <<>>
    /\ chainSubmissions = <<>>
    /\ emitted = <<>>
    /\ calls = [c \in Calls |-> IdleCall]
    /\ syncs = [k \in Syncs |-> IdleSync]
    /\ listeners = {}
    /\ deliveries = <<>>
    /\ mirrorRequests = {}
    /\ mirrorSubmissions = {}
    /\ ipfsInitialized = FALSE
    /\ qcalls = [q \in QCalls |-> IdleQCall]
    /\ modelLogs = <<>>
    /\ verifications = <<>>
    /\ s3Initialized = FALSE
    /\ lastOp \in {SubmissionArgument(submission) : submission \in SubmissionArgs}

\* QualityService.checkCompleteness(submission)
callCheckCompleteness ==
    /\ lastOp.op = "argument"
    /\ lastOp' = Checked("checkCompleteness", lastOp.result[1].submission,
                         checkCompleteness(lastOp.result[1].submission), FALSE)
    /\ UNCHANGED <<clientVars, ledgerVars, calls, syncs, listeners, deliveries,
                   mirrorVars, qualityVars, s3Initialized>>

\* QualityService.checkFormatCompliance(submission)
callCheckFormatCompliance ==
    /\ lastOp.op = "argument"
    /\ lastOp' = Checked("checkFormatCompliance", lastOp.result[1].submission,
                         checkFormatCompliance(lastOp.result[1].submission),
                         checkFormatCompliance(lastOp.result[1].submission) = Throws)
    /\ UNCHANGED <<clientVars, ledgerVars, calls, syncs, listeners, deliveries,
                   mirrorVars, qualityVars, s3Initialized>>

\* QualityService.runQualityChecks(submission)
callRunQualityChecks ==
    /\ lastOp.op = "argument"
    /\ lastOp' = Checked("runQualityChecks", lastOp.result[1].submission,
                         runQualityChecks(lastOp.result[1].submission),
                         runQualityChecks(lastOp.result[1].submission)
                             ["formatCompliance"] = Throws)
    /\ UNCHANGED <<clientVars, ledgerVars, calls, syncs, listeners, deliveries,
                   mirrorVars, qualityVars, s3Initialized>>

NextChecks ==
    \/ callCheckCompleteness
    \/ callCheckFormatCompliance
    \/ callRunQualityChecks

SpecChecks == InitChecks /\ [][NextChecks]_vars

\* C35: for every submission, whichever of its fields are missing or blank,
\* runQualityChecks completes and its result holds completeness and
\* formatCompliance.
C35_ChecksCompleteForEverySubmission ==
    lastOp.op = "runQualityChecks" =>
        /\ lastOp.error = ""
        /\ {"completeness", "formatCompliance"} \subseteq DOMAIN lastOp.result[1].output

\* the metrics a format's check set contributes
ContributedBy(format) ==
    CASE format = "CSV" -> {"accuracy", "validity", "consistency", "distributionScore"}
      [] format = "IMAGE" -> {"validity", "diversityScore", "syntheticQuality"}
      [] format = "AUDIO" -> {"validity", "syntheticQuality"}
      [] format = "TEXT" -> {"validity", "diversityScore", "biasScore",
                             "syntheticQuality"}
      [] format = "VIDEO" -> {"validity", "syntheticQuality"}
      [] OTHER -> {"validity"}

\* C36: the metric map runQualityChecks returns holds exactly completeness,
\* formatCompliance and the metrics of the format's check set (validity only
\* for a format without one); a metric not produced for the format is left
\* out, never held as null, and does not enter the mean.
C36_MetricsOfTheFormatOnly ==
    (lastOp.op = "runQualityChecks" /\ lastOp.error = "") =>
        LET metrics == lastOp.result[1].output
            format == lastOp.result[1].submission.format
        IN /\ DOMAIN metrics
                  = {"completeness", "formatCompliance"} \cup ContributedBy(format)
           /\ \A m \in DOMAIN metrics : metrics[m] # Rat(NullNum, 1)
           /\ Len(SelectSeq(Keys(metrics), LAMBDA k : TypeofNumber(metrics[k])))
                  = 2 + Cardinality(ContributedBy(format))

C36_Witness ==
    /\ lastOp.op = "runQualityChecks"
    /\ lastOp.error = ""
    /\ lastOp.result[1].submission.format = "MIXED"
    /\ DOMAIN lastOp.result[1].output = {"completeness", "formatCompliance", "validity"}

\* a number that is missing or zero; a string that is missing, empty or blank
MissingOrZero(n) == n \in {NullNum, 0}
BlankString(str) == str \in {Undefined, Str(<<"">>), Str(<<" ">>)}

\* C38: checkCompleteness is 100 minus 20 for a missing or zero file size,
\* minus 20 for a missing or zero sample count, minus 10 for blank extensions,
\* minus 10 for a blank dataset reference; it is one of 40, 50, ..., 100.
C38_CompletenessDeductions ==
    lastOp.op = "checkCompleteness" =>
        LET submission == lastOp.result[1].submission
            deducted == (IF MissingOrZero(submission.fileSize) THEN 20 ELSE 0)
                        + (IF MissingOrZero(submission.sampleCount) THEN 20 ELSE 0)
                        + (IF BlankString(submission.fileExtensions) THEN 10 ELSE 0)
                        + (IF BlankString(submission.datasetReference) THEN 10 ELSE 0)
        IN /\ lastOp.result[1].output = 100 - deducted
           /\ lastOp.result[1].output \in {40, 50, 60, 70, 80, 90, 100}

C38_Witness ==
    /\ lastOp.op = "checkCompleteness"
    /\ lastOp.result[1].submission.fileSize = 0
    /\ lastOp.result[1].submission.sampleCount = NullNum
    /\ lastOp.result[1].submission.fileExtensions = Str(<<" ">>)
    /\ lastOp.result[1].submission.datasetReference = Undefined
    /\ lastOp.result[1].output = 40

\* the declared extensions that, trimmed and lower-cased, belong to the
\* expected set of the format
Belonging(format) ==
    CASE format = "CSV" -> {"csv", "CSV", " tsv"}
      [] format = "IMAGE" -> {"png"}
      [] format = "TEXT" -> {"txt"}
      [] OTHER -> {}

\* C39: checkFormatCompliance is 100 times the fraction of the declared
\* extensions, compared trimmed and without regard to case, that belong to
\* the format's expected set, and 100 for a format without an expected set
\* (MIXED or unknown) whatever extensions are declared.
C39_ComplianceIsFractionOfExtensions ==
    (lastOp.op = "checkFormatCompliance"
     /\ lastOp.result[1].submission.fileExtensions.defined) =>
        LET submission == lastOp.result[1].submission
            declared == submission.fileExtensions.tokens
            belonging == {i \in 1..Len(declared) :
                             declared[i] \in Belonging(submission.format)}
        IN /\ lastOp.error = ""
           /\ IF submission.format \in {"MIXED", "PDF"}
              THEN lastOp.result[1].output = Whole(100)
              ELSE /\ lastOp.result[1].output.den > 0
                   /\ lastOp.result[1].output.num * Len(declared)
                          = 100 * Cardinality(belonging) * lastOp.result[1].output.den

C39_Witness ==
    /\ lastOp.op = "checkFormatCompliance"
    /\ lastOp.result[1].submission.format = "CSV"
    /\ lastOp.result[1].submission.fileExtensions = Str(<<"CSV", " tsv">>)
    /\ lastOp.result[1].output.num = 100 * lastOp.result[1].output.den

====
